---- MODULE Spec2Model ----
(***************************************************************************)
(* Model of the clinic scrapers: the hours extractor and its time          *)
(* normaliser (src/clinic_hours_finder.py) and the website validator       *)
(* (src/clinic_website_finder.py).                                         *)
(*                                                                         *)
(* A Python str is a sequence of one-character strings; None is the        *)
(* one-element sequence NoneVal, whose element is no character.            *)
(***************************************************************************)
EXTENDS Integers, Sequences, FiniteSets, TLC

\* ------------------------------------------------------------------------
\* Characters and the str methods the code uses
\* ------------------------------------------------------------------------
NoneVal == <<"None">>

Digits == <<"0", "1", "2", "3", "4", "5", "6", "7", "8", "9">>
LowerCase == <<"a", "b", "c", "d", "e", "f", "g", "h", "i", "j", "k", "l", "m",
               "n", "o", "p", "q", "r", "s", "t", "u", "v", "w", "x", "y", "z">>
UpperCase == <<"A", "B", "C", "D", "E", "F", "G", "H", "I", "J", "K", "L", "M",
               "N", "O", "P", "Q", "R", "S", "T", "U", "V", "W", "X", "Y", "Z">>

Range(f) == {f[k] : k \in DOMAIN f}

\* \d and \s of the re module, over the characters the model uses
DigitCls == Range(Digits)
SpaceCls == {" ", "\t", "\n"}

IndexIn(seq, ch) == CHOOSE k \in DOMAIN seq : seq[k] = ch

\* str.lower() and str.upper(), character by character
LowerCh(ch) == IF ch \in Range(UpperCase) THEN LowerCase[IndexIn(UpperCase, ch)] ELSE ch
UpperCh(ch) == IF ch \in Range(LowerCase) THEN UpperCase[IndexIn(LowerCase, ch)] ELSE ch
lower(s) == [k \in DOMAIN s |-> LowerCh(s[k])]
upper(s) == [k \in DOMAIN s |-> UpperCh(s[k])]

\* str.strip(): drop leading and trailing whitespace
RECURSIVE lstrip(_)
lstrip(s) == IF s # <<>> /\ Head(s) \in SpaceCls THEN lstrip(Tail(s)) ELSE s
RECURSIVE rstrip(_)
rstrip(s) ==
    IF s # <<>> /\ s[Len(s)] \in SpaceCls THEN rstrip(SubSeq(s, 1, Len(s) - 1)) ELSE s
strip(s) == rstrip(lstrip(s))

\* the `in` operator on strings: needle occurs in s
Contains(s, needle) ==
    \E k \in 1..(Len(s) - Len(needle) + 1) : SubSeq(s, k, k + Len(needle) - 1) = needle

\* int(str) on a string of digits, and str(int) for n >= 0
RECURSIVE StrToInt(_)
StrToInt(s) ==
    IF s = <<>> THEN 0
    ELSE 10 * StrToInt(SubSeq(s, 1, Len(s) - 1)) + (IndexIn(Digits, s[Len(s)]) - 1)
RECURSIVE IntToStr(_)
IntToStr(n) == IF n < 10 THEN <<Digits[n + 1]>> ELSE IntToStr(n \div 10) \o <<Digits[(n % 10) + 1]>>

\* ------------------------------------------------------------------------
\* Regular expressions (Python re): a backtracking matcher that lists the
\* matches starting at a position in the order re tries them, so that the
\* head of the list is the match re.search reports.
\* ------------------------------------------------------------------------
Lit(s) == [t |-> "lit", s |-> s]
Cls(cs) == [t |-> "cls", cs |-> cs]
Cat(xs) == [t |-> "cat", xs |-> xs]
\* an alternation of literal words, tried in the order written
Alt(ws) == [t |-> "alt", ws |-> ws]
Rep(r, lo, hi) == [t |-> "rep", r |-> r, lo |-> lo, hi |-> hi]
Grp(n, r) == [t |-> "grp", n |-> n, r |-> r]
\* hi of an unbounded repetition
Unbounded == 0 - 1
Opt(r) == Rep(r, 0, 1)
Star(r) == Rep(r, 0, Unbounded)
D == Cls(DigitCls)
WS == Star(Cls(SpaceCls))

\* no group has taken part in the match: start 0
MaxGroups == 6
NoCaps == [g \in 1..MaxGroups |-> <<0, 0>>]

\* the word w stands at position i of s
LitAt(w, s, i) ==
    /\ i + Len(w) - 1 <= Len(s)
    /\ \A k \in 1..Len(w) : s[i + k - 1] = w[k]

RECURSIVE M(_, _, _, _)
RECURSIVE MCat(_, _, _, _, _)
RECURSIVE MCatOver(_, _, _, _, _)
RECURSIVE MRep(_, _, _, _, _, _)
RECURSIVE MRepOver(_, _, _, _, _, _, _)

\* matches of re at position i of s: <<[e |-> next position, c |-> groups], ...>>
M(re, s, i, c) ==
    CASE re.t = "lit" ->
           IF LitAt(re.s, s, i) THEN <<[e |-> i + Len(re.s), c |-> c]>> ELSE <<>>
      [] re.t = "cls" ->
           IF i <= Len(s) /\ s[i] \in re.cs THEN <<[e |-> i + 1, c |-> c]>> ELSE <<>>
      [] re.t = "cat" -> MCat(re.xs, 1, s, i, c)
      [] re.t = "alt" ->
           LET ws == SelectSeq(re.ws, LAMBDA w : LitAt(w, s, i))
           IN  [k \in DOMAIN ws |-> [e |-> i + Len(ws[k]), c |-> c]]
      [] re.t = "rep" -> MRep(re.r, re.lo, re.hi, s, i, c)
      [] re.t = "grp" ->
           LET rs == M(re.r, s, i, c)
           IN  [k \in DOMAIN rs |->
                   [e |-> rs[k].e, c |-> [rs[k].c EXCEPT ![re.n] = <<i, rs[k].e>>]]]

MCat(xs, k, s, i, c) ==
    IF k > Len(xs) THEN <<[e |-> i, c |-> c]>>
    ELSE MCatOver(M(xs[k], s, i, c), 1, xs, k, s)

MCatOver(rs, j, xs, k, s) ==
    IF j > Len(rs) THEN <<>>
    ELSE MCat(xs, k + 1, s, rs[j].e, rs[j].c) \o MCatOver(rs, j + 1, xs, k, s)

\* greedy: one more repetition is tried before stopping here. A repeated
\* class takes one character each time, so its matches are the run of
\* class characters at i, the longest first, down to lo of them.
MRep(r, lo, hi, s, i, c) ==
    IF r.t = "cls"
    THEN LET room == Len(s) - i + 1
             most == IF hi = Unbounded \/ hi > room THEN (IF room < 0 THEN 0 ELSE room) ELSE hi
             n == CHOOSE k \in 0..most :
                      /\ \A j \in 0..(k - 1) : s[i + j] \in r.cs
                      /\ (k = most \/ s[i + k] \notin r.cs)
             least == IF lo < 0 THEN 0 ELSE lo
         IN  [k \in 1..(n - least + 1) |-> [e |-> i + n - k + 1, c |-> c]]
    ELSE (IF hi = 0 THEN <<>> ELSE MRepOver(M(r, s, i, c), 1, r, lo, hi, s, i))
         \o (IF lo <= 0 THEN <<[e |-> i, c |-> c]>> ELSE <<>>)

MRepOver(rs, j, r, lo, hi, s, i) ==
    IF j > Len(rs) THEN <<>>
    ELSE (IF rs[j].e > i
          THEN MRep(r, lo - 1, IF hi = Unbounded THEN hi ELSE hi - 1, s, rs[j].e, rs[j].c)
          ELSE <<>>)
         \o MRepOver(rs, j + 1, r, lo, hi, s, i)

NoMatch == [found |-> FALSE, b |-> 0, e |-> 0, c |-> NoCaps]

\* re.search(re, s): the first match at the leftmost position that has one
RECURSIVE SearchFrom(_, _, _)
SearchFrom(re, s, i) ==
    IF i > Len(s) + 1 THEN NoMatch
    ELSE LET rs == M(re, s, i, NoCaps)
         IN  IF rs # <<>> THEN [found |-> TRUE, b |-> i, e |-> rs[1].e, c |-> rs[1].c]
             ELSE SearchFrom(re, s, i + 1)
search(re, s) == SearchFrom(re, s, 1)

\* match.group(0), and match.group(n) for a group of the pattern (None when
\* the group took no part in the match)
group0(m, s) == SubSeq(s, m.b, m.e - 1)
group(m, s, n) == IF m.c[n][1] = 0 THEN NoneVal ELSE SubSeq(s, m.c[n][1], m.c[n][2] - 1)

\* the default is forgotten: an absent group gives the empty string
OrElse_NoDefault(x, default) == IF x = NoneVal THEN <<>> ELSE x

\* x or default, for a group that is None or empty
OrElse(x, default) == IF x = NoneVal \/ x = <<>> THEN default ELSE x

\* ------------------------------------------------------------------------
\* ClinicHoursFinder.format_hours
\* ------------------------------------------------------------------------
unknown == <<"u", "n", "k", "n", "o", "w", "n">>
closed == <<"c", "l", "o", "s", "e", "d">>
AmOrPm == Alt(<<<<"a", "m">>, <<"p", "m">>>>)

\* r'(\d{1,2}):?(\d{2})?\s*-\s*(\d{1,2}):?(\d{2})?'
time_pattern ==
    Cat(<<Grp(1, Rep(D, 1, 2)), Opt(Lit(<<":">>)), Opt(Grp(2, Rep(D, 2, 2))),
          WS, Lit(<<"-">>), WS,
          Grp(3, Rep(D, 1, 2)), Opt(Lit(<<":">>)), Opt(Grp(4, Rep(D, 2, 2)))>>)

\* r'(\d{1,2}):?(\d{2})?\s*(am|pm)\s*-\s*(\d{1,2}):?(\d{2})?\s*(am|pm)'
am_pm_pattern ==
    Cat(<<Grp(1, Rep(D, 1, 2)), Opt(Lit(<<":">>)), Opt(Grp(2, Rep(D, 2, 2))),
          WS, Grp(3, AmOrPm), WS, Lit(<<"-">>), WS,
          Grp(4, Rep(D, 1, 2)), Opt(Lit(<<":">>)), Opt(Grp(5, Rep(D, 2, 2))),
          WS, Grp(6, AmOrPm)>>)

AM == <<"A", "M">>
PM == <<"P", "M">>

\* f"{start_hour}:{start_min} {start_ampm} - {end_hour}:{end_min} {end_ampm}"
HoursString(sh, sm, sa, eh, em, ea) ==
    sh \o <<":">> \o sm \o <<" ">> \o sa \o <<" ", "-", " ">> \o eh \o <<":">> \o em \o <<" ">> \o ea

\* noon is labelled AM: the comparison includes 12
AmPmOf_Inclusive(hour) == IF hour <= 12 THEN <<"A", "M">> ELSE <<"P", "M">>

\* the 12-hour clock of the bare-number branch
AmPmOf(hour) == IF hour < 12 THEN AM ELSE PM
To12(hour) == IF hour > 12 THEN hour - 12 ELSE IF hour = 0 THEN 12 ELSE hour

format_hours(hours_text_in) ==
    IF hours_text_in = NoneVal \/ hours_text_in = <<>> THEN unknown
    ELSE
      LET hours_text == lower(strip(hours_text_in))
          m1 == search(time_pattern, hours_text)
          bare == ~Contains(hours_text, <<"a", "m">>) /\ ~Contains(hours_text, <<"p", "m">>)
          m2 == search(am_pm_pattern, hours_text)
      IN  IF m1.found /\ bare
          THEN LET start_hour == StrToInt(group(m1, hours_text, 1))
                   start_min == OrElse(group(m1, hours_text, 2), <<"0", "0">>)
                   end_hour == StrToInt(group(m1, hours_text, 3))
                   end_min == OrElse(group(m1, hours_text, 4), <<"0", "0">>)
               IN  HoursString(IntToStr(To12(start_hour)), start_min, AmPmOf(start_hour),
                               IntToStr(To12(end_hour)), end_min, AmPmOf(end_hour))
          ELSE IF m2.found
          THEN HoursString(group(m2, hours_text, 1),
                           OrElse(group(m2, hours_text, 2), <<"0", "0">>),
                           upper(group(m2, hours_text, 3)),
                           group(m2, hours_text, 4),
                           OrElse(group(m2, hours_text, 5), <<"0", "0">>),
                           upper(group(m2, hours_text, 6)))
          ELSE hours_text

\* ------------------------------------------------------------------------
\* ClinicHoursFinder.extract_hours_from_text
\* ------------------------------------------------------------------------
days == <<"Monday", "Tuesday", "Wednesday", "Thursday", "Friday", "Saturday", "Sunday">>
Days == Range(days)

\* day.lower()
day_lower(day) ==
    CASE day = "Monday" -> <<"m", "o", "n", "d", "a", "y">>
      [] day = "Tuesday" -> <<"t", "u", "e", "s", "d", "a", "y">>
      [] day = "Wednesday" -> <<"w", "e", "d", "n", "e", "s", "d", "a", "y">>
      [] day = "Thursday" -> <<"t", "h", "u", "r", "s", "d", "a", "y">>
      [] day = "Friday" -> <<"f", "r", "i", "d", "a", "y">>
      [] day = "Saturday" -> <<"s", "a", "t", "u", "r", "d", "a", "y">>
      [] day = "Sunday" -> <<"s", "u", "n", "d", "a", "y">>

closed_indicators ==
    <<<<"c", "l", "o", "s", "e", "d">>,
      <<"c", "l", "o", "s", "e">>,
      <<"n", "o", "t", " ", "o", "p", "e", "n">>,
      <<"u", "n", "a", "v", "a", "i", "l", "a", "b", "l", "e">>,
      <<"b", "y", " ", "a", "p", "p", "o", "i", "n", "t", "m", "e", "n", "t", " ", "o", "n", "l", "y">>,
      <<"a", "p", "p", "o", "i", "n", "t", "m", "e", "n", "t", " ", "o", "n", "l", "y">>,
      <<"c", "a", "l", "l", " ", "f", "o", "r", " ", "h", "o", "u", "r", "s">>,
      <<"v", "a", "r", "i", "e", "s">>,
      <<"h", "o", "l", "i", "d", "a", "y", " ", "h", "o", "u", "r", "s">>>>

Colon == Opt(Lit(<<":">>))
Dash == Lit(<<"-">>)

\* the three shapes "Monday: Closed", "Closed Monday", "Monday - Closed"
closed_patterns(day) ==
    <<Cat(<<Lit(day_lower(day)), Colon, WS, Grp(1, Alt(closed_indicators))>>),
      Cat(<<Grp(1, Alt(closed_indicators)), WS, Lit(day_lower(day))>>),
      Cat(<<Lit(day_lower(day)), Colon, WS, Dash, WS, Grp(1, Alt(closed_indicators))>>)>>

\* \d{1,2}:?\d{0,2}\s*(?:am|pm)?\s*-\s*\d{1,2}:?\d{0,2}\s*(?:am|pm)?
HoursRange ==
    Cat(<<Rep(D, 1, 2), Colon, Rep(D, 0, 2), WS, Opt(AmOrPm), WS, Dash, WS,
          Rep(D, 1, 2), Colon, Rep(D, 0, 2), WS, Opt(AmOrPm)>>)

\* \d{1,2}\s*(?:am|pm)\s*-\s*\d{1,2}\s*(?:am|pm)
AmPmRange ==
    Cat(<<Rep(D, 1, 2), WS, AmOrPm, WS, Dash, WS, Rep(D, 1, 2), WS, AmOrPm>>)

\* "Monday: 9am-5pm", "Mon 9:00-17:00"
day_patterns(day) ==
    <<Cat(<<Lit(day_lower(day)), Colon, WS, Grp(1, HoursRange)>>),
      Cat(<<Lit(SubSeq(day_lower(day), 1, 3)), Colon, WS, Grp(1, HoursRange)>>),
      Cat(<<Lit(day_lower(day)), Colon, WS, Grp(1, AmPmRange)>>)>>

AbbrevDay ==
    Alt(<<<<"m", "o", "n">>, <<"t", "u", "e">>, <<"w", "e", "d">>,
          <<"t", "h", "u">>, <<"f", "r", "i">>, <<"s", "a", "t">>,
          <<"s", "u", "n">>>>)

\* "Mon-Fri: 9am-5pm", "Weekdays: 9am-5pm", "<abbrev>-<abbrev>: 9am-5pm"
general_patterns ==
    <<Cat(<<Grp(1, Alt(<<<<"m", "o", "n">>, <<"m", "o", "n", "d", "a", "y">>>>)),
            WS, Dash, WS,
            Grp(2, Alt(<<<<"f", "r", "i">>, <<"f", "r", "i", "d", "a", "y">>>>)),
            Colon, WS, Grp(3, HoursRange)>>),
      Cat(<<Lit(<<"w", "e", "e", "k", "d", "a", "y">>), Opt(Lit(<<"s">>)), Colon, WS,
            Grp(1, HoursRange)>>),
      Cat(<<Grp(1, AbbrevDay), WS, Dash, WS, Grp(2, AbbrevDay), Colon, WS,
            Grp(3, HoursRange)>>)>>

\* the number of groups of each general pattern
general_groups == <<3, 1, 3>>

\* the index the range pass hands to match.group
RangeGroupIndex == 0 - 1

\* match.group(n) raises IndexError unless 0 <= n <= the pattern's groups
GroupRaises(n, ngroups) == n < 0 \/ n > ngroups

\* the days start as empty strings
InitHours_Blank == [d \in Days |-> <<>>]

\* lines 94-96: every day starts as "unknown"
InitHours == [d \in Days |-> unknown]

\* lines 99-112, for one day: any of the three closed shapes occurs in the text
ClosedDay(day, t) == \E k \in 1..3 : search(closed_patterns(day)[k], t).found

ClosedPass(t, hd) == [d \in Days |-> IF ClosedDay(d, t) THEN closed ELSE hd[d]]

\* lines 126-130: the first day pattern that matches gives the day its hours
RECURSIVE DayHours(_, _, _, _)
DayHours(day, t, k, cur) ==
    IF k > 3 THEN cur
    ELSE LET m == search(day_patterns(day)[k], t)
         IN  IF m.found THEN format_hours(group(m, t, 1)) ELSE DayHours(day, t, k + 1, cur)

\* the hours pass without its test for "closed"
HoursDay_Unguarded(day, t, cur) == DayHours(day, t, 1, cur)

\* lines 115-130, for one day: a closed day is left alone
HoursDay(day, t, cur) == IF cur # closed THEN DayHours(day, t, 1, cur) ELSE cur

HoursPass(t, hd) == [d \in Days |-> HoursDay(d, t, hd[d])]

WeekDays == {"Monday", "Tuesday", "Wednesday", "Thursday", "Friday"}

\* line 142: the matched text mentions both "mon" and "fri"
MonFri(g0) == Contains(g0, <<"m", "o", "n">>) /\ Contains(g0, <<"f", "r", "i">>)

\* lines 145-147: the range goes to the weekdays that are still unknown
ApplyRange(hd, formatted_hours) ==
    [d \in Days |-> IF d \in WeekDays /\ hd[d] = unknown THEN formatted_hours ELSE hd[d]]

\* lines 139-147: the general patterns in order; raised when match.group raises
RECURSIVE GeneralPass(_, _, _)
GeneralPass(t, hd, k) ==
    IF k > Len(general_patterns) THEN [raised |-> FALSE, hd |-> hd]
    ELSE LET m == search(general_patterns[k], t)
         IN  IF m.found /\ MonFri(group0(m, t))
             THEN IF GroupRaises(RangeGroupIndex, general_groups[k])
                  THEN [raised |-> TRUE, hd |-> hd]
                  ELSE GeneralPass(t, ApplyRange(hd, format_hours(group(m, t, RangeGroupIndex))),
                                   k + 1)
             ELSE GeneralPass(t, hd, k + 1)

\* the whole function on a text: the mapping returned, or the exception
extract_hours_from_text(t) ==
    IF t = NoneVal \/ t = <<>> THEN [raised |-> FALSE, hd |-> <<>>]
    ELSE GeneralPass(lower(t), HoursPass(lower(t), ClosedPass(lower(t), InitHours)), 1)

\* ------------------------------------------------------------------------
\* State
\* ------------------------------------------------------------------------
VARIABLES
    text,         \* extract_hours_from_text: the argument, lower-cased at line 91
    nclauses,     \* the number of clauses the page text was put together from
    pc,           \* extract_hours_from_text: "input", "closed", "hours", "general", "done", "raised"
    hours_data,   \* extract_hours_from_text: the local mapping
    result,       \* extract_hours_from_text: the mapping returned
    hours_text,   \* format_hours: the argument
    formatted,    \* format_hours: the value returned
    fpc,          \* format_hours: "ready", "formatted", "reformatted"
    url,          \* validate_website: the argument
    vpc,          \* validate_website: "idle", "call", "returned"
    http_requests,\* the number of requests.get calls made so far
    vresult,      \* validate_website: the pair returned
    response,     \* validate_website: what requests.get gave at line 92
    nqueries,     \* search_for_website: len(queries)
    qi,           \* search_for_website: the index i of the query in hand
    inquery,      \* search_for_website: search() answered, its results are iterated
    examined,     \* the calls of validate_website so far, each with what it returned
    best_website, \* search_for_website: the local
    best_score,   \* search_for_website: the local
    spc,          \* search_for_website: "idle", "loop", "returned"
    sreturn,      \* search_for_website: the tuple returned
    clinic_name,  \* guess_clinic_domain: the argument
    gi,           \* guess_clinic_domain: the position in domain_patterns
    gurl,         \* check_domain_exists: the argument url
    gresponse,    \* check_domain_exists: what requests.get gave at line 494
    accepted,     \* check_domain_exists: the value returned
    gpc,          \* guess_clinic_domain: "idle", "loop", "checked", "returned"
    gresult,      \* guess_clinic_domain: the value returned
    website_url,  \* extract_from_website: the argument
    wresponse,    \* extract_from_website: what session.get gave at line 115
    webpage,      \* the elements of the page fetched
    bpc,          \* "idle", "get", "strategy1", "strategy2", "strategy3", "hours", "returned"
    li,           \* extract_booking_url: the position in soup.find_all('a', href=True)
    pi,           \* extract_booking_url: the position in booking_paths[:5]
    fetched,      \* the URLs extract_booking_url has requested, in order
    last,         \* what session.get gave for the last of them
    booking_url,  \* extract_booking_url: the value returned
    strategy,     \* the strategy that returned it, 0 for none
    escaped,      \* an exception left extract_booking_url
    data,         \* extract_from_website: the dict returned
    google_blocked,           \* KinesiologistNext200: self.google_blocked
    total_attempts,           \* KinesiologistNext200: self.total_attempts
    successful_website_finds, \* KinesiologistNext200: self.successful_website_finds
    provider_calls,           \* the calls of googlesearch.search made so far
    last_error,               \* search_google_with_backoff: str(e) of the last exception caught
    called,                   \* the methods run by the lookup in hand, in order
    mpc,                      \* search_clinic_website_multiple_methods: "idle", "google", "guess", "ddg", "returned"
    website,                  \* search_clinic_website_multiple_methods: the value returned
    directory,          \* the practitioner directory the scrape reads
    page_num,           \* scrape_next_200_practitioners: page_num
    practitioners,      \* scrape_next_200_practitioners: what is left of the page in hand
    practitioners_seen, \* scrape_next_200_practitioners: practitioners_seen
    all_practitioners,  \* scrape_next_200_practitioners: all_practitioners
    checkpoint_count,   \* scrape_next_200_practitioners: checkpoint_count
    files,              \* the checkpoint files on disk, by the number in their name
    cpc,                \* scrape_next_200_practitioners: "idle", "while", "for", "done"
    records,            \* process_sample_records: len(available_websites)
    idx,                \* process_sample_records: idx, the record in hand
    results,            \* process_sample_records: results
    fetches,            \* search_clinic_hours: the pages asked for, for the record in hand
    all_text_content,   \* search_clinic_hours: all_text_content
    rpc,                \* process_sample_records: "idle", "collect", "done", "raised"
    practitioners_data,  \* process_practitioners_batch: the argument
    pidx,  \* process_practitioners_batch: i, the entry in hand
    presults,  \* process_practitioners_batch: results
    ppc, \* process_practitioners_batch: "idle", "loop", "returned"
    api_key,  \* ComprehensiveBookingExtractor: google_api_key is set
    places_data,  \* extract_from_google_apis: places_data
    website_data,  \* extract_from_google_apis: website_data
    gdata,  \* extract_from_google_apis: data
    apc, \* extract_from_google_apis: "idle", "key", "website", "hours", "returned"
    qargs,  \* generate_hours_search_queries: name, clinic_name, address, website
    queries,  \* generate_hours_search_queries: the list returned
    qpc  \* generate_hours_search_queries: "idle", "called", "returned"

vars == <<text, nclauses, pc, hours_data, result, hours_text, formatted, fpc,
          url, vpc, http_requests, vresult, response,
          nqueries, qi, inquery, examined, best_website, best_score, spc, sreturn,
          clinic_name, gi, gurl, gresponse, accepted, gpc, gresult,
          website_url, wresponse, webpage, bpc, li, pi, fetched, last, booking_url,
          strategy, escaped, data,
          google_blocked, total_attempts, successful_website_finds, provider_calls,
          last_error, called, mpc, website,
          directory, page_num, practitioners, practitioners_seen, all_practitioners,
          checkpoint_count, files, cpc,
          records, idx, results, fetches, all_text_content, rpc,
          practitioners_data, pidx, presults, ppc,
          api_key, places_data, website_data, gdata, apc,
          qargs, queries, qpc>>
hoursVars == <<text, nclauses, pc, hours_data, result>>
formatVars == <<hours_text, formatted, fpc>>
validateVars == <<url, vpc, http_requests, vresult, response>>
searchVars == <<nqueries, qi, inquery, examined, best_website, best_score, spc, sreturn>>
earlierVars == <<hoursVars, formatVars, validateVars>>
guessVars == <<clinic_name, gi, gurl, gresponse, accepted, gpc, gresult>>
bookingVars == <<website_url, wresponse, webpage, bpc, li, pi, fetched, last, booking_url,
                 strategy, escaped, data>>
lookupVars == <<google_blocked, total_attempts, successful_website_finds, provider_calls,
                last_error, called, mpc, website>>
scrapeVars == <<directory, page_num, practitioners, practitioners_seen, all_practitioners,
                checkpoint_count, files, cpc>>
batchVars == <<records, idx, results, fetches, all_text_content, rpc>>
practitionersVars == <<practitioners_data, pidx, presults, ppc>>
googleVars == <<api_key, places_data, website_data, gdata, apc>>
queriesVars == <<qargs, queries, qpc>>
laterVars == <<searchVars, guessVars, bookingVars, lookupVars, scrapeVars, batchVars, practitionersVars, googleVars, queriesVars>>
searchRest == <<earlierVars, guessVars, bookingVars, lookupVars, scrapeVars, batchVars, practitionersVars, googleVars, queriesVars>>
guessRest == <<earlierVars, searchVars, bookingVars, lookupVars, scrapeVars, batchVars, practitionersVars, googleVars, queriesVars>>
bookingRest == <<earlierVars, searchVars, guessVars, lookupVars, scrapeVars, batchVars, practitionersVars, googleVars, queriesVars>>
lookupRest == <<earlierVars, searchVars, guessVars, bookingVars, scrapeVars, batchVars, practitionersVars, googleVars, queriesVars>>
scrapeRest == <<earlierVars, searchVars, guessVars, bookingVars, lookupVars, batchVars, practitionersVars, googleVars, queriesVars>>
batchRest == <<earlierVars, searchVars, guessVars, bookingVars, lookupVars, scrapeVars, practitionersVars, googleVars, queriesVars>>
practitionersRest == <<earlierVars, searchVars, guessVars, bookingVars, lookupVars, scrapeVars, batchVars, googleVars, queriesVars>>
googleRest == <<earlierVars, searchVars, guessVars, bookingVars, lookupVars, scrapeVars, batchVars, practitionersVars, queriesVars>>
queriesRest == <<earlierVars, searchVars, guessVars, bookingVars, lookupVars, scrapeVars, batchVars, practitionersVars, googleVars>>

\* ------------------------------------------------------------------------
\* Page texts: clauses "<subject>: <value>" joined by ", " or " "
\* ------------------------------------------------------------------------
MaxClauses == 2

\* a day with its hours or "closed", or a weekday range with its hours
DaySubjects ==
    {<<"m", "o", "n", "d", "a", "y">>,
     <<"t", "u", "e", "s", "d", "a", "y">>}
DayValues ==
    {<<"c", "l", "o", "s", "e", "d">>,
     <<"9", "a", "m", "-", "5", "p", "m">>,
     <<"9", "-", "5", "p", "m">>}
RangeSubjects ==
    {<<"M", "o", "n", "-", "F", "r", "i">>,
     <<"W", "e", "e", "k", "d", "a", "y", "s">>}
RangeValues == {<<"9", "a", "m", "-", "5", "p", "m">>}
Separators == {<<",", " ">>, <<" ">>}
Clause(subject, value) == subject \o <<":", " ">> \o value
Clauses ==
    {Clause(subject, value) : subject \in DaySubjects, value \in DayValues}
    \cup {Clause(subject, value) : subject \in RangeSubjects, value \in RangeValues}

HoursIdle ==
    /\ text = <<>>
    /\ nclauses = 0
    /\ pc = "input"
    /\ hours_data = <<>>
    /\ result = <<>>

FormatIdle ==
    /\ hours_text = <<>>
    /\ formatted = <<>>
    /\ fpc = "ready"

NoResult == [is_valid |-> FALSE, num |-> 0, den |-> 0]

\* no request made; a request that raised; a request answered
NoResponse == [raised |-> FALSE, status_code |-> 0, text |-> <<>>]
Raised == [raised |-> TRUE, status_code |-> 0, text |-> <<>>]
Answer(status, page) == [raised |-> FALSE, status_code |-> status, text |-> page]

ValidateIdle ==
    /\ url = <<>>
    /\ vpc = "idle"
    /\ http_requests = 0
    /\ vresult = NoResult
    /\ response = NoResponse

\* a score as the exact fraction num/den; 0.0
Zero == [num |-> 0, den |-> 1]
NoReturn == [website |-> <<>>, score |-> Zero, query |-> 0]

SearchIdle ==
    /\ nqueries = 0
    /\ qi = 0
    /\ inquery = FALSE
    /\ examined = <<>>
    /\ best_website = NoneVal
    /\ best_score = Zero
    /\ spc = "idle"
    /\ sreturn = NoReturn

EarlierIdle == HoursIdle /\ FormatIdle /\ ValidateIdle
GuessIdle ==
    /\ clinic_name = <<>>
    /\ gi = 0
    /\ gurl = <<>>
    /\ gresponse = NoResponse
    /\ accepted = FALSE
    /\ gpc = "idle"
    /\ gresult = NoneVal

\* what session.get gave: it raised, or a response with its final URL
GetRaised == [raised |-> TRUE, status_code |-> 0, url |-> <<>>, text |-> <<>>]
Got(status, final_url, body) ==
    [raised |-> FALSE, status_code |-> status, url |-> final_url, text |-> body]
NotGot == [raised |-> FALSE, status_code |-> 0, url |-> <<>>, text |-> <<>>]

\* comprehensive_booking_extractor.py, lines 104-111: data as initialised
EmptyHours ==
    [weekday_earliest_am |-> <<>>, weekday_latest_pm |-> <<>>,
     weekend_earliest_am |-> <<>>, weekend_latest_pm |-> <<>>, days_closed |-> <<>>]
EmptyData == [booking_url |-> <<>>] @@ EmptyHours

BookingIdle ==
    /\ website_url = <<>>
    /\ wresponse = NotGot
    /\ webpage = <<>>
    /\ bpc = "idle"
    /\ li = 0
    /\ pi = 0
    /\ fetched = <<>>
    /\ last = NotGot
    /\ booking_url = <<>>
    /\ strategy = 0
    /\ escaped = FALSE
    /\ data = EmptyData

\* example_usage.py, lines 216-218
LookupIdle ==
    /\ google_blocked = FALSE
    /\ total_attempts = 0
    /\ successful_website_finds = 0
    /\ provider_calls = 0
    /\ last_error = <<>>
    /\ called = <<>>
    /\ mpc = "idle"
    /\ website = NoneVal

NoDirectory == [size |-> 0, per_page |-> 1, lacking |-> {}]
NoFiles == [f \in {} |-> <<>>]

\* example_usage.py, lines 710-713
ScrapeIdle ==
    /\ directory = NoDirectory
    /\ page_num = 1
    /\ practitioners = <<>>
    /\ practitioners_seen = 0
    /\ all_practitioners = <<>>
    /\ checkpoint_count = 0
    /\ files = NoFiles
    /\ cpc = "idle"

\* clinic_hours_finder.py, lines 208 and 281
BatchIdle ==
    /\ records = 0
    /\ idx = 0
    /\ results = <<>>
    /\ fetches = 0
    /\ all_text_content = <<>>
    /\ rpc = "idle"

\* comprehensive_booking_extractor.py, line 518
PractitionersIdle ==
    /\ practitioners_data = <<>>
    /\ pidx = 0
    /\ presults = <<>>
    /\ ppc = "idle"

\* a dict without keys
NoOpeningHours == [keys |-> {}, weekday_text |-> <<>>]
NoPlace == [keys |-> {}, website |-> <<>>, opening_hours |-> NoOpeningHours]

\* comprehensive_booking_extractor.py, line 349
GoogleIdle ==
    /\ api_key = FALSE
    /\ places_data = NoPlace
    /\ website_data = EmptyData
    /\ gdata = EmptyData
    /\ apc = "idle"

NoArgs == [name |-> <<>>, clinic_name |-> <<>>, address |-> <<>>, website |-> <<>>]

\* clinic_hours_finder.py, line 55
QueriesIdle ==
    /\ qargs = NoArgs
    /\ queries = <<>>
    /\ qpc = "idle"

LaterIdle ==
    SearchIdle /\ GuessIdle /\ BookingIdle /\ LookupIdle /\ ScrapeIdle /\ BatchIdle
    /\ PractitionersIdle /\ GoogleIdle /\ QueriesIdle
AllIdle == EarlierIdle /\ LaterIdle

\* ------------------------------------------------------------------------
\* extract_hours_from_text, pass by pass
\* ------------------------------------------------------------------------
Init ==
    /\ text \in {<<>>, NoneVal}
    /\ nclauses = 0
    /\ pc = "input"
    /\ hours_data = <<>>
    /\ result = <<>>
    /\ FormatIdle
    /\ ValidateIdle
    /\ LaterIdle

\* the page text collected by search_clinic_hours grows by one clause
AddClause ==
    /\ pc = "input"
    /\ text # NoneVal
    /\ nclauses < MaxClauses
    /\ \E clause \in Clauses, sep \in IF nclauses = 0 THEN {<<>>} ELSE Separators :
            text' = text \o sep \o clause
    /\ nclauses' = nclauses + 1
    /\ UNCHANGED <<pc, hours_data, result, formatVars, validateVars, laterVars>>

\* lines 88-89: no text, the empty mapping is returned
ReturnEmpty ==
    /\ pc = "input"
    /\ (text = NoneVal \/ text = <<>>)
    /\ result' = <<>>
    /\ pc' = "done"
    /\ UNCHANGED <<text, nclauses, hours_data, formatVars, validateVars, laterVars>>

\* lines 91-96
Begin ==
    /\ pc = "input"
    /\ ~(text = NoneVal \/ text = <<>>)
    /\ text' = lower(text)
    /\ hours_data' = InitHours
    /\ pc' = "closed"
    /\ UNCHANGED <<nclauses, result, formatVars, validateVars, laterVars>>

\* lines 98-112
ClosedStep ==
    /\ pc = "closed"
    /\ hours_data' = ClosedPass(text, hours_data)
    /\ pc' = "hours"
    /\ UNCHANGED <<text, nclauses, result, formatVars, validateVars, laterVars>>

\* lines 114-130
HoursStep ==
    /\ pc = "hours"
    /\ hours_data' = HoursPass(text, hours_data)
    /\ pc' = "general"
    /\ UNCHANGED <<text, nclauses, result, formatVars, validateVars, laterVars>>

\* lines 132-149, returning
RangeReturn ==
    /\ pc = "general"
    /\ LET gp == GeneralPass(text, hours_data, 1)
       IN  /\ ~gp.raised
           /\ hours_data' = gp.hd
           /\ result' = gp.hd
    /\ pc' = "done"
    /\ UNCHANGED <<text, nclauses, formatVars, validateVars, laterVars>>

\* lines 132-147, match.group raising IndexError out of the function
RangeRaise ==
    /\ pc = "general"
    /\ GeneralPass(text, hours_data, 1).raised
    /\ pc' = "raised"
    /\ UNCHANGED <<text, nclauses, hours_data, result, formatVars, validateVars, laterVars>>

Next ==
    \/ AddClause
    \/ ReturnEmpty
    \/ Begin
    \/ ClosedStep
    \/ HoursStep
    \/ RangeReturn
    \/ RangeRaise

Spec == Init /\ [][Next]_vars

\* ------------------------------------------------------------------------
\* format_hours on bounded inputs, and on its own output
\* ------------------------------------------------------------------------
MaxHour == 23

Minutes == {<<>>, <<":", "0", "0">>}
\* the am/pm markers of the two endpoints
Markers == {<<<<>>, <<>>>>, <<<<"a", "m">>, <<"p", "m">>>>, <<<<>>, <<"p", "m">>>>}

RangeText(sh, sm, sa, eh, em, ea) == IntToStr(sh) \o sm \o sa \o <<"-">> \o IntToStr(eh) \o em \o ea

OtherTexts ==
    {NoneVal, <<>>, <<" ">>, unknown, closed,
     <<"9", " ", "-", " ", "5">>,
     <<"9", "A", "M", "-", "5", "P", "M">>,
     <<"0", "9", ":", "3", "0", "-", "1", "7", ":", "4", "5">>,
     <<" ", "9", ":", "3", "0", " ", "a", "m", " ", "-", " ", "5", " ", "p", "m", " ">>}

FormatInputs ==
    OtherTexts \cup
    {RangeText(sh, sm, mk[1], eh, em, mk[2]) :
        sh \in 0..MaxHour, sm \in Minutes, eh \in 0..MaxHour, em \in Minutes, mk \in Markers}

FormatInit ==
    /\ hours_text \in FormatInputs
    /\ formatted = <<>>
    /\ fpc = "ready"
    /\ HoursIdle
    /\ ValidateIdle
    /\ LaterIdle

Format ==
    /\ fpc = "ready"
    /\ formatted' = format_hours(hours_text)
    /\ fpc' = "formatted"
    /\ UNCHANGED <<hours_text, hoursVars, validateVars, laterVars>>

\* the value returned is handed to format_hours again
FormatAgain ==
    /\ fpc = "formatted"
    /\ hours_text' = formatted
    /\ formatted' = format_hours(formatted)
    /\ fpc' = "reformatted"
    /\ UNCHANGED <<hoursVars, validateVars, laterVars>>

FormatNext == Format \/ FormatAgain

SpecFormat == FormatInit /\ [][FormatNext]_vars

\* ------------------------------------------------------------------------
\* ClinicWebsiteFinder.validate_website
\* ------------------------------------------------------------------------
healthcare_keywords ==
    <<<<"m", "a", "s", "s", "a", "g", "e">>,
      <<"t", "h", "e", "r", "a", "p", "y">>,
      <<"r", "m", "t">>,
      <<"w", "e", "l", "l", "n", "e", "s", "s">>,
      <<"h", "e", "a", "l", "t", "h">>,
      <<"c", "l", "i", "n", "i", "c">>,
      <<"p", "h", "y", "s", "i", "o", "t", "h", "e", "r", "a", "p", "y">>,
      <<"r", "e", "h", "a", "b", "i", "l", "i", "t", "a", "t", "i", "o", "n">>,
      <<"t", "r", "e", "a", "t", "m", "e", "n", "t">>,
      <<"t", "h", "e", "r", "a", "p", "e", "u", "t", "i", "c">>,
      <<"r", "e", "g", "i", "s", "t", "e", "r", "e", "d", " ", "m", "a", "s", "s", "a", "g", "e", " ", "t", "h", "e", "r", "a", "p", "i", "s", "t">>,
      <<"b", "o", "d", "y", "w", "o", "r", "k">>,
      <<"h", "e", "a", "l", "i", "n", "g">>>>

excluded_domains ==
    <<<<"f", "a", "c", "e", "b", "o", "o", "k", ".", "c", "o", "m">>,
      <<"i", "n", "s", "t", "a", "g", "r", "a", "m", ".", "c", "o", "m">>,
      <<"t", "w", "i", "t", "t", "e", "r", ".", "c", "o", "m">>,
      <<"l", "i", "n", "k", "e", "d", "i", "n", ".", "c", "o", "m">>,
      <<"y", "e", "l", "p", ".", "c", "o", "m">>,
      <<"y", "e", "l", "l", "o", "w", "p", "a", "g", "e", "s", ".", "c", "a">>,
      <<"g", "o", "o", "g", "l", "e", ".", "c", "o", "m">>,
      <<"m", "a", "p", "s", ".", "g", "o", "o", "g", "l", "e", ".", "c", "o", "m">>,
      <<"f", "o", "u", "r", "s", "q", "u", "a", "r", "e", ".", "c", "o", "m">>,
      <<"t", "r", "i", "p", "a", "d", "v", "i", "s", "o", "r", ".", "c", "o", "m">>,
      <<"b", "o", "o", "k", "i", "n", "g", ".", "c", "o", "m">>>>

\* the characters urlsplit accepts in a scheme
SchemeChars == Range(LowerCase) \cup Range(UpperCase) \cup DigitCls \cup {"+", "-", "."}
Letters == Range(LowerCase) \cup Range(UpperCase)

\* the position of the first character of s, from position i on, that is in cs;
\* Len(s) + 1 when there is none
RECURSIVE FindAny(_, _, _)
FindAny(s, cs, i) == IF i > Len(s) \/ s[i] \in cs THEN i ELSE FindAny(s, cs, i + 1)

\* urlparse(url).netloc: the scheme up to the first ":" is taken off when it
\* is one, and the netloc is what follows "//" up to the first of "/", "?", "#"
Netloc(u) ==
    LET i == FindAny(u, {":"}, 1)
        rest == IF /\ i > 1
                   /\ i <= Len(u)
                   /\ u[1] \in Letters
                   /\ \A k \in 1..(i - 1) : u[k] \in SchemeChars
                THEN SubSeq(u, i + 1, Len(u))
                ELSE u
    IN  IF Len(rest) >= 2 /\ rest[1] = "/" /\ rest[2] = "/"
        THEN SubSeq(rest, 3, FindAny(rest, {"/", "?", "#"}, 3) - 1)
        ELSE <<>>

\* the exclusion test compares the whole domain with the entries
IsExcluded_WholeDomain(domain) == \E k \in DOMAIN excluded_domains : domain = excluded_domains[k]

\* line 84: any(excluded in domain for excluded in self.excluded_domains)
IsExcluded(domain) == \E k \in DOMAIN excluded_domains : Contains(domain, excluded_domains[k])

\* line 83
DomainOf(u) == lower(Netloc(u))

\* line 101: the keywords that occur in the lower-cased page text
keyword_count(page) ==
    Cardinality({k \in DOMAIN healthcare_keywords :
                    Contains(lower(page), healthcare_keywords[k])})

\* lines 85, 94, 113
FalseZero == [is_valid |-> FALSE, num |-> 0, den |-> 1]

Scored_AnyKeyword(page) ==
    [is_valid |-> keyword_count(page) > 0,
     num |-> keyword_count(page),
     den |-> Len(healthcare_keywords)]

\* lines 101-109: score = keyword_count / len(keywords), valid above 0.1
Scored(page) ==
    [is_valid |-> 10 * keyword_count(page) > Len(healthcare_keywords),
     num |-> keyword_count(page),
     den |-> Len(healthcare_keywords)]

MaxRequests == 2

Schemes == {<<>>, <<"h", "t", "t", "p", ":", "/", "/">>, <<"h", "t", "t", "p", "s", ":", "/", "/">>}
Hosts ==
    {<<"f", "a", "c", "e", "b", "o", "o", "k", ".", "c", "o", "m">>,
     <<"w", "w", "w", ".", "f", "a", "c", "e", "b", "o", "o", "k", ".", "c", "o", "m">>,
     <<"M", "a", "p", "s", ".", "G", "o", "o", "g", "l", "e", ".", "c", "o", "m">>,
     <<"m", ".", "y", "e", "l", "p", ".", "c", "o", "m">>,
     <<"f", "a", "c", "e", "b", "o", "o", "k", "c", "l", "i", "n", "i", "c", ".", "c", "a">>,
     <<"m", "y", "c", "l", "i", "n", "i", "c", ".", "c", "a">>}
Paths == {<<>>, <<"/", "a", "b", "o", "u", "t">>}
Urls == {scheme \o host \o path : scheme \in Schemes, host \in Hosts, path \in Paths}

\* the texts of the pages fetched
Pages ==
    {<<"w", "e", "l", "c", "o", "m", "e", " ", "t", "o", " ", "o", "u", "r", " ", "s", "i", "t", "e">>,
     <<"m", "a", "s", "s", "a", "g", "e">>,
     <<"p", "h", "y", "s", "i", "o", "t", "h", "e", "r", "a", "p", "y">>,
     <<"r", "m", "t", " ", "c", "l", "i", "n", "i", "c", " ", "w", "e", "l", "l", "n", "e", "s", "s">>,
     <<"R", "e", "g", "i", "s", "t", "e", "r", "e", "d", " ", "M", "a", "s", "s", "a", "g", "e", " ", "T", "h", "e", "r", "a", "p", "i", "s", "t", " ", "R", "M", "T", " ", "c", "l", "i", "n", "i", "c", " ", "w", "e", "l", "l", "n", "e", "s", "s">>}

OkStatus == 200
Statuses == {OkStatus, 404, 500}

ValidateInit ==
    /\ ValidateIdle
    /\ HoursIdle
    /\ FormatIdle
    /\ LaterIdle

\* a caller hands validate_website the next search result
Call ==
    /\ vpc \in {"idle", "returned"}
    /\ http_requests < MaxRequests
    /\ url' \in Urls
    /\ vpc' = "call"
    /\ response' = NoResponse
    /\ UNCHANGED <<http_requests, vresult, hoursVars, formatVars, laterVars>>

\* lines 83-85: an excluded domain is rejected before any request
RejectExcluded ==
    /\ vpc = "call"
    /\ IsExcluded(DomainOf(url))
    /\ vresult' = FalseZero
    /\ vpc' = "returned"
    /\ UNCHANGED <<url, http_requests, response, hoursVars, formatVars, laterVars>>

\* lines 92, 111-113: requests.get raises
GetRaises ==
    /\ vpc = "call"
    /\ ~IsExcluded(DomainOf(url))
    /\ http_requests' = http_requests + 1
    /\ response' = Raised
    /\ vresult' = FalseZero
    /\ vpc' = "returned"
    /\ UNCHANGED <<url, hoursVars, formatVars, laterVars>>

\* lines 92-109: requests.get answers; a URL without netloc gets no answer
GetAnswers ==
    /\ vpc = "call"
    /\ ~IsExcluded(DomainOf(url))
    /\ Netloc(url) # <<>>
    /\ http_requests' = http_requests + 1
    /\ \E status \in Statuses, page \in Pages :
          /\ response' = Answer(status, page)
          /\ vresult' = IF status # OkStatus THEN FalseZero ELSE Scored(page)
    /\ vpc' = "returned"
    /\ UNCHANGED <<url, hoursVars, formatVars, laterVars>>

ValidateNext == Call \/ RejectExcluded \/ GetRaises \/ GetAnswers

SpecValidate == ValidateInit /\ [][ValidateNext]_vars

\* ------------------------------------------------------------------------
\* search_for_website (clinic_website_finder.py, lines 115-162)
\* ------------------------------------------------------------------------
MaxQueries == 2
MaxCandidates == 3

\* the URLs a search answers with
SearchUrls ==
    {<<"h", "t", "t", "p", "s", ":", "/", "/", "m", "y", "c", "l", "i", "n", "i", "c", ".", "c", "a">>,
     <<"h", "t", "t", "p", "s", ":", "/", "/", "m", "y", "c", "l", "i", "n", "i", "c", ".", "c", "a", "/", "a", "b", "o", "u", "t">>,
     <<"h", "t", "t", "p", "s", ":", "/", "/", "w", "w", "w", ".", "f", "a", "c", "e", "b", "o", "o", "k", ".", "c", "o", "m", "/", "m", "y", "c", "l", "i", "n", "i", "c">>}

\* what validate_website can return for a URL: (False, 0.0), or the score of
\* a page found valid (the score of a page found not valid is never read,
\* line 143)
ValidateOutcomes(u) ==
    IF IsExcluded(DomainOf(u))
    THEN {FalseZero}
    ELSE {FalseZero} \cup {v \in {Scored(page) : page \in Pages} : v.is_valid}

ScoreOf(v) == [num |-> v.num, den |-> v.den]

\* a > b on fractions with positive denominators
Gt(a, b) == a.num * b.den > b.num * a.den

HighConfidence_Tenth(score) == 10 * score.num > score.den

\* line 149: score > 0.3
HighConfidence(score) == 10 * score.num > 3 * score.den

\* line 124 and lines 128-131
SearchCall ==
    /\ spc = "idle"
    /\ nqueries' \in 0..MaxQueries
    /\ qi' = 1
    /\ inquery' = FALSE
    /\ examined' = <<>>
    /\ best_website' = NoneVal
    /\ best_score' = Zero
    /\ spc' = "loop"
    /\ UNCHANGED <<sreturn, searchRest>>

\* lines 136, 156-159: search() raises, the query is given up
SearchRaises ==
    /\ spc = "loop" /\ qi <= nqueries /\ ~inquery
    /\ qi' = qi + 1
    /\ UNCHANGED <<nqueries, inquery, examined, best_website, best_score, spc, sreturn,
                   searchRest>>

\* line 136: search() answers with a list of URLs
SearchAnswers ==
    /\ spc = "loop" /\ qi <= nqueries /\ ~inquery
    /\ inquery' = TRUE
    /\ UNCHANGED <<nqueries, qi, examined, best_website, best_score, spc, sreturn,
                   searchRest>>

\* lines 139-151: the next URL of the list is validated
Examine ==
    /\ spc = "loop" /\ inquery
    /\ Len(examined) < MaxCandidates
    /\ \E u \in SearchUrls :
         \E v \in ValidateOutcomes(u) :
            /\ examined' = Append(examined, [url |-> u, is_valid |-> v.is_valid,
                                              score |-> ScoreOf(v), query |-> qi])
            /\ IF v.is_valid /\ Gt(ScoreOf(v), best_score)
               THEN /\ best_website' = u
                    /\ best_score' = ScoreOf(v)
                    /\ IF HighConfidence(ScoreOf(v))
                       THEN /\ spc' = "returned"
                            /\ sreturn' = [website |-> u, score |-> ScoreOf(v),
                                           query |-> qi]
                       ELSE UNCHANGED <<spc, sreturn>>
               ELSE UNCHANGED <<best_website, best_score, spc, sreturn>>
    /\ UNCHANGED <<nqueries, qi, inquery, searchRest>>

\* line 139 exhausted, line 154: on to the next query
EndResults ==
    /\ spc = "loop" /\ inquery
    /\ qi' = qi + 1
    /\ inquery' = FALSE
    /\ UNCHANGED <<nqueries, examined, best_website, best_score, spc, sreturn,
                   searchRest>>

\* line 162: all queries done
ReturnBest ==
    /\ spc = "loop" /\ qi > nqueries
    /\ spc' = "returned"
    /\ sreturn' = [website |-> best_website, score |-> best_score,
                   query |-> IF nqueries > 0 THEN 1 ELSE 0]
    /\ UNCHANGED <<nqueries, qi, inquery, examined, best_website, best_score,
                   searchRest>>

SearchInit == AllIdle

SearchNext ==
    SearchCall \/ SearchRaises \/ SearchAnswers \/ Examine \/ EndResults \/ ReturnBest

SpecSearch == SearchInit /\ [][SearchNext]_vars

\* ------------------------------------------------------------------------
\* guess_clinic_domain and check_domain_exists (example_usage.py, lines 458-510)
\* ------------------------------------------------------------------------
\* lines 221-226: the keywords of KinesiologistNext200
kin_healthcare_keywords ==
    <<<<"p", "h", "y", "s", "i", "o", "t", "h", "e", "r", "a", "p", "y">>,
      <<"k", "i", "n", "e", "s", "i", "o", "l", "o", "g", "y">>,
      <<"r", "e", "h", "a", "b", "i", "l", "i", "t", "a", "t", "i", "o", "n">>,
      <<"t", "h", "e", "r", "a", "p", "y">>,
      <<"c", "l", "i", "n", "i", "c">>,
      <<"h", "e", "a", "l", "t", "h">>,
      <<"w", "e", "l", "l", "n", "e", "s", "s">>,
      <<"f", "i", "t", "n", "e", "s", "s">>,
      <<"e", "x", "e", "r", "c", "i", "s", "e">>,
      <<"t", "r", "e", "a", "t", "m", "e", "n", "t">>,
      <<"m", "e", "d", "i", "c", "a", "l">>,
      <<"h", "e", "a", "l", "t", "h", "c", "a", "r", "e">>,
      <<"p", "h", "y", "s", "i", "o">>,
      <<"k", "i", "n", "e", "s", "i", "o", "l", "o", "g", "i", "s", "t">>,
      <<"t", "h", "e", "r", "a", "p", "i", "s", "t">>,
      <<"r", "e", "c", "o", "v", "e", "r", "y">>,
      <<"i", "n", "j", "u", "r", "y">>,
      <<"p", "a", "i", "n">>,
      <<"m", "a", "s", "s", "a", "g", "e">>,
      <<"c", "h", "i", "r", "o", "p", "r", "a", "c", "t", "i", "c">>,
      <<"o", "s", "t", "e", "o", "p", "a", "t", "h", "y">>,
      <<"a", "c", "u", "p", "u", "n", "c", "t", "u", "r", "e">>,
      <<"s", "p", "o", "r", "t", "s", " ", "m", "e", "d", "i", "c", "i", "n", "e">>>>

\* str.split(): the words between runs of whitespace
RECURSIVE split(_)
split(s) ==
    LET t == lstrip(s)
        e == FindAny(t, SpaceCls, 1)
    IN  IF t = <<>> THEN <<>>
        ELSE <<SubSeq(t, 1, e - 1)>> \o split(SubSeq(t, e, Len(t)))

\* ''.join(words)
RECURSIVE join(_)
join(words) == IF words = <<>> THEN <<>> ELSE Head(words) \o join(Tail(words))

\* line 462: re.sub(r'[^a-zA-Z0-9\s]', '', clinic_name.lower())
clean_name(name) ==
    SelectSeq(lower(name), LAMBDA ch : ch \in Letters \cup DigitCls \cup SpaceCls)

\* lines 466-475; None where the list has None
domain_patterns(name) ==
    LET words == split(clean_name(name))
        two == SubSeq(words, 1, IF Len(words) < 2 THEN Len(words) ELSE 2)
    IN  <<join(words) \o <<".", "c", "o", "m">>,
          join(words) \o <<".", "c", "a">>,
          IF Len(words) > 1 THEN join(two) \o <<".", "c", "o", "m">> ELSE NoneVal,
          IF Len(words) > 1 THEN join(two) \o <<".", "c", "a">> ELSE NoneVal,
          IF Len(words) > 0 THEN words[1] \o <<"c", "l", "i", "n", "i", "c", ".", "c", "o", "m">> ELSE NoneVal,
          IF Len(words) > 0 THEN words[1] \o <<"r", "e", "h", "a", "b", ".", "c", "a">> ELSE NoneVal,
          IF Len(words) > 0 THEN words[1] \o <<"f", "i", "t", "n", "e", "s", "s", ".", "c", "o", "m">> ELSE NoneVal,
          IF Len(words) > 0 THEN words[1] \o <<"h", "e", "a", "l", "t", "h", ".", "c", "a">> ELSE NoneVal>>

\* line 478: if pattern and len(pattern) > 6
Tried(pattern) == pattern # NoneVal /\ pattern # <<>> /\ Len(pattern) > 6

\* line 500: the words of the clinic name longer than 3 that occur in the content
clinic_score(content, name) ==
    LET clinic_words == split(lower(name))
    IN  Cardinality({k \in DOMAIN clinic_words :
                        Len(clinic_words[k]) > 3 /\ Contains(content, clinic_words[k])})

\* line 503: the first ten keywords that occur in the content
healthcare_score(content) ==
    Cardinality({k \in 1..10 : Contains(content, kin_healthcare_keywords[k])})

check_domain_exists_OneKeyword(resp, name) ==
    /\ ~resp.raised
    /\ resp.status_code = OkStatus
    /\ clinic_score(lower(resp.text), name) >= 1
    /\ healthcare_score(lower(resp.text)) >= 1

\* lines 493-510, on what requests.get gave
check_domain_exists(resp, name) ==
    /\ ~resp.raised
    /\ resp.status_code = OkStatus
    /\ clinic_score(lower(resp.text), name) >= 1
    /\ healthcare_score(lower(resp.text)) >= 2

ClinicNames ==
    {<<"C", "o", "r", "e", " ", "R", "e", "h", "a", "b">>,
     <<"F", "i", "t", " ", "L", "a", "b">>,
     <<"A", "p", "e", "x">>}

GuessPages ==
    {<<"d", "o", "m", "a", "i", "n", " ", "f", "o", "r", " ", "s", "a", "l", "e">>,
     <<"c", "o", "r", "e", " ", "c", "l", "i", "n", "i", "c">>,
     <<"C", "o", "r", "e", " ", "R", "e", "h", "a", "b", " ", "P", "h", "y", "s", "i", "o", "t", "h", "e", "r", "a", "p", "y">>,
     <<"h", "e", "a", "l", "t", "h", " ", "a", "n", "d", " ", "f", "i", "t", "n", "e", "s", "s", " ", "e", "x", "e", "r", "c", "i", "s", "e">>,
     <<"F", "i", "t", " ", "L", "a", "b", " ", "a", "n", "d", " ", "A", "p", "e", "x", " ", "h", "e", "a", "l", "t", "h", " ", "c", "l", "i", "n", "i", "c">>}

\* a caller hands guess_clinic_domain a clinic name
GuessCall ==
    /\ gpc = "idle"
    /\ clinic_name' \in ClinicNames
    /\ gi' = 1
    /\ gpc' = "loop"
    /\ UNCHANGED <<gurl, gresponse, accepted, gresult, guessRest>>

\* lines 477-478: a pattern that is None or too short is passed over
GuessSkip ==
    /\ gpc = "loop" /\ gi <= Len(domain_patterns(clinic_name))
    /\ ~Tried(domain_patterns(clinic_name)[gi])
    /\ gi' = gi + 1
    /\ UNCHANGED <<clinic_name, gurl, gresponse, accepted, gpc, gresult, guessRest>>

\* lines 479-480: check_domain_exists is called and returns
GuessCheck ==
    /\ gpc = "loop" /\ gi <= Len(domain_patterns(clinic_name))
    /\ Tried(domain_patterns(clinic_name)[gi])
    /\ gurl' = <<"h", "t", "t", "p", "s", ":", "/", "/", "w", "w", "w", ".">> \o domain_patterns(clinic_name)[gi]
    /\ gresponse' \in {Raised} \cup {Answer(status, page) : status \in Statuses, page \in GuessPages}
    /\ accepted' = check_domain_exists(gresponse', clinic_name)
    /\ gpc' = "checked"
    /\ UNCHANGED <<clinic_name, gi, gresult, guessRest>>

\* lines 480-483: the accepted URL is returned
GuessAccept ==
    /\ gpc = "checked" /\ accepted
    /\ gresult' = gurl
    /\ gpc' = "returned"
    /\ UNCHANGED <<clinic_name, gi, gurl, gresponse, accepted, guessRest>>

\* line 480: not accepted, on to the next pattern
GuessReject ==
    /\ gpc = "checked" /\ ~accepted
    /\ gi' = gi + 1
    /\ gpc' = "loop"
    /\ UNCHANGED <<clinic_name, gurl, gresponse, accepted, gresult, guessRest>>

\* line 485: no pattern left
GuessNone ==
    /\ gpc = "loop" /\ gi > Len(domain_patterns(clinic_name))
    /\ gresult' = NoneVal
    /\ gpc' = "returned"
    /\ UNCHANGED <<clinic_name, gi, gurl, gresponse, accepted, guessRest>>

GuessInit == AllIdle

GuessNext ==
    GuessCall \/ GuessSkip \/ GuessCheck \/ GuessAccept \/ GuessReject \/ GuessNone

SpecGuess == GuessInit /\ [][GuessNext]_vars

\* ------------------------------------------------------------------------
\* ComprehensiveBookingExtractor.extract_booking_url and follow_booking_link
\* (comprehensive_booking_extractor.py, lines 140-220)
\* ------------------------------------------------------------------------
\* lines 35-48
booking_patterns ==
    <<\* r'book\s*(?:now|online|appointment|visit|treatment|session)'
      Cat(<<Lit(<<"b", "o", "o", "k">>), WS, Alt(<<<<"n", "o", "w">>, <<"o", "n", "l", "i", "n", "e">>, <<"a", "p", "p", "o", "i", "n", "t", "m", "e", "n", "t">>, <<"v", "i", "s", "i", "t">>, <<"t", "r", "e", "a", "t", "m", "e", "n", "t">>, <<"s", "e", "s", "s", "i", "o", "n">>>>)>>),
      \* r'schedule\s*(?:now|online|appointment|visit|treatment)'
      Cat(<<Lit(<<"s", "c", "h", "e", "d", "u", "l", "e">>), WS, Alt(<<<<"n", "o", "w">>, <<"o", "n", "l", "i", "n", "e">>, <<"a", "p", "p", "o", "i", "n", "t", "m", "e", "n", "t">>, <<"v", "i", "s", "i", "t">>, <<"t", "r", "e", "a", "t", "m", "e", "n", "t">>>>)>>),
      \* r'appointment\s*(?:booking|online|schedule)'
      Cat(<<Lit(<<"a", "p", "p", "o", "i", "n", "t", "m", "e", "n", "t">>), WS, Alt(<<<<"b", "o", "o", "k", "i", "n", "g">>, <<"o", "n", "l", "i", "n", "e">>, <<"s", "c", "h", "e", "d", "u", "l", "e">>>>)>>),
      \* r'online\s*(?:booking|scheduling|appointment)'
      Cat(<<Lit(<<"o", "n", "l", "i", "n", "e">>), WS, Alt(<<<<"b", "o", "o", "k", "i", "n", "g">>, <<"s", "c", "h", "e", "d", "u", "l", "i", "n", "g">>, <<"a", "p", "p", "o", "i", "n", "t", "m", "e", "n", "t">>>>)>>),
      \* r'reserve\s*(?:now|online|appointment)'
      Cat(<<Lit(<<"r", "e", "s", "e", "r", "v", "e">>), WS, Alt(<<<<"n", "o", "w">>, <<"o", "n", "l", "i", "n", "e">>, <<"a", "p", "p", "o", "i", "n", "t", "m", "e", "n", "t">>>>)>>),
      \* r'request\s*(?:appointment|consultation)'
      Cat(<<Lit(<<"r", "e", "q", "u", "e", "s", "t">>), WS, Alt(<<<<"a", "p", "p", "o", "i", "n", "t", "m", "e", "n", "t">>, <<"c", "o", "n", "s", "u", "l", "t", "a", "t", "i", "o", "n">>>>)>>),
      \* r'contact\s*(?:us|form)'
      Cat(<<Lit(<<"c", "o", "n", "t", "a", "c", "t">>), WS, Alt(<<<<"u", "s">>, <<"f", "o", "r", "m">>>>)>>),
      \* r'get\s*started'
      Cat(<<Lit(<<"g", "e", "t">>), WS, Lit(<<"s", "t", "a", "r", "t", "e", "d">>)>>),
      \* r'book\s*a\s*(?:visit|session|treatment|consultation)'
      Cat(<<Lit(<<"b", "o", "o", "k">>), WS, Lit(<<"a">>), WS, Alt(<<<<"v", "i", "s", "i", "t">>, <<"s", "e", "s", "s", "i", "o", "n">>, <<"t", "r", "e", "a", "t", "m", "e", "n", "t">>, <<"c", "o", "n", "s", "u", "l", "t", "a", "t", "i", "o", "n">>>>)>>),
      \* r'make\s*an?\s*appointment'
      Cat(<<Lit(<<"m", "a", "k", "e">>), WS, Lit(<<"a">>), Opt(Lit(<<"n">>)), WS, Lit(<<"a", "p", "p", "o", "i", "n", "t", "m", "e", "n", "t">>)>>),
      \* r'patient\s*portal'
      Cat(<<Lit(<<"p", "a", "t", "i", "e", "n", "t">>), WS, Lit(<<"p", "o", "r", "t", "a", "l">>)>>),
      \* r'client\s*portal'
      Cat(<<Lit(<<"c", "l", "i", "e", "n", "t">>), WS, Lit(<<"p", "o", "r", "t", "a", "l">>)>>)>>

\* lines 51-57
booking_paths ==
    <<<<"/", "b", "o", "o", "k">>,
      <<"/", "b", "o", "o", "k", "i", "n", "g">>,
      <<"/", "b", "o", "o", "k", "-", "o", "n", "l", "i", "n", "e">>,
      <<"/", "b", "o", "o", "k", "-", "n", "o", "w">>,
      <<"/", "a", "p", "p", "o", "i", "n", "t", "m", "e", "n", "t">>,
      <<"/", "a", "p", "p", "o", "i", "n", "t", "m", "e", "n", "t", "s">>,
      <<"/", "s", "c", "h", "e", "d", "u", "l", "e">>,
      <<"/", "s", "c", "h", "e", "d", "u", "l", "i", "n", "g">>,
      <<"/", "c", "o", "n", "t", "a", "c", "t">>,
      <<"/", "c", "o", "n", "t", "a", "c", "t", "-", "u", "s">>,
      <<"/", "g", "e", "t", "-", "s", "t", "a", "r", "t", "e", "d">>,
      <<"/", "p", "o", "r", "t", "a", "l">>,
      <<"/", "p", "a", "t", "i", "e", "n", "t", "-", "p", "o", "r", "t", "a", "l">>,
      <<"/", "c", "l", "i", "e", "n", "t", "-", "p", "o", "r", "t", "a", "l">>,
      <<"/", "o", "n", "l", "i", "n", "e", "-", "b", "o", "o", "k", "i", "n", "g">>,
      <<"/", "b", "o", "o", "k", "-", "a", "p", "p", "o", "i", "n", "t", "m", "e", "n", "t">>,
      <<"/", "r", "e", "q", "u", "e", "s", "t", "-", "a", "p", "p", "o", "i", "n", "t", "m", "e", "n", "t">>>>

\* the characters of the pages
Alphabet ==
    Range(LowerCase) \cup Range(UpperCase) \cup DigitCls \cup SpaceCls
        \cup {":", "/", ".", "-", "_", "<", ">", "=", "\"", "'", ",", ")", "}", "]", "(", "?", "&"}

\* [^...]
AnyBut(cs) == Cls(Alphabet \ cs)

janeapp_com == <<"j", "a", "n", "e", "a", "p", "p", ".", "c", "o", "m">>

\* lines 147-150; the patterns are used with re.IGNORECASE
jane_patterns ==
    <<\* r'https?://[^/]*\.janeapp\.com[^\s"\']*'
      Cat(<<Lit(<<"h", "t", "t", "p">>), Opt(Lit(<<"s">>)), Lit(<<":", "/", "/">>), Star(AnyBut({"/"})),
            Lit(<<".", "j", "a", "n", "e", "a", "p", "p", ".", "c", "o", "m">>), Star(AnyBut(SpaceCls \cup {"\"", "'"}))>>),
      \* r'https?://[^/]*janeapp[^/]*\.com[^\s"\']*'
      Cat(<<Lit(<<"h", "t", "t", "p">>), Opt(Lit(<<"s">>)), Lit(<<":", "/", "/">>), Star(AnyBut({"/"})),
            Lit(<<"j", "a", "n", "e", "a", "p", "p">>), Star(AnyBut({"/"})), Lit(<<".", "c", "o", "m">>),
            Star(AnyBut(SpaceCls \cup {"\"", "'"}))>>)>>

\* re.findall(pattern, s, re.IGNORECASE) for a pattern of lower-case literals:
\* the matches from left to right, none overlapping another
\* (t is s lower-cased; the next match starts at the least position that has one)
RECURSIVE FindAllFrom(_, _, _, _)
FindAllFrom(re, s, t, i) ==
    LET starts == {k \in i..Len(t) : M(re, t, k, NoCaps) # <<>>}
        b == CHOOSE k \in starts : \A j \in starts : k <= j
        e == M(re, t, b, NoCaps)[1].e
    IN  IF starts = {} THEN <<>>
        ELSE <<SubSeq(s, b, e - 1)>> \o FindAllFrom(re, s, t, IF e > b THEN e ELSE e + 1)
findall(re, s) == FindAllFrom(re, s, lower(s), 1)

\* match.rstrip('",\')}]')
RECURSIVE rstrip_chars(_, _)
rstrip_chars(s, cs) ==
    IF s # <<>> /\ s[Len(s)] \in cs THEN rstrip_chars(SubSeq(s, 1, Len(s) - 1), cs) ELSE s
TrailingChars == {"\"", ",", "'", ")", "}", "]"}

\* the matches of both patterns without the test of line 156
booking_urls_Unfiltered(page_text) ==
    {rstrip_chars(m, TrailingChars) :
        m \in Range(findall(jane_patterns[1], page_text))
                 \cup Range(findall(jane_patterns[2], page_text))}

booking_urls_FirstPattern(page_text) ==
    {u \in {rstrip_chars(m, TrailingChars) : m \in Range(findall(jane_patterns[1], page_text))} :
        Contains(u, janeapp_com)}

\* lines 152-157: the set booking_urls after the two loops
booking_urls(page_text) ==
    {u \in {rstrip_chars(m, TrailingChars) :
               m \in Range(findall(jane_patterns[1], page_text))
                        \cup Range(findall(jane_patterns[2], page_text))} :
        Contains(u, janeapp_com)}

\* line 167: some booking pattern is found in the text of the link
IsBookingText(link_text) ==
    \E k \in DOMAIN booking_patterns : search(booking_patterns[k], lower(link_text)).found

\* urllib.parse.urljoin for an http(s) base with a network location
SchemeOf(u) == SubSeq(u, 1, FindAny(u, {":"}, 1) - 1)
HasScheme(u) ==
    LET k == FindAny(u, {":"}, 1)
    IN  k > 1 /\ k <= Len(u) /\ \A j \in 1..(k - 1) : u[j] \in SchemeChars
PathStart(u) == FindAny(u, {"/", "?", "#"}, Len(SchemeOf(u)) + 4)
urljoin(base, href) ==
    IF href = <<>> THEN base
    ELSE IF HasScheme(href) THEN href
    ELSE IF Len(href) >= 2 /\ href[1] = "/" /\ href[2] = "/" THEN SchemeOf(base) \o <<":">> \o href
    ELSE IF href[1] = "/" THEN SubSeq(base, 1, PathStart(base) - 1) \o href
    ELSE LET path == SubSeq(base, PathStart(base), Len(base))
             dir == rstrip_chars(path, Alphabet \ {"/"})
         IN  SubSeq(base, 1, PathStart(base) - 1)
                 \o (IF dir = <<>> THEN <<"/">> ELSE dir) \o href

\* an exception that leaves the function
Propagated == <<"raise">>

\* the final URL is returned for a body that holds the signature, too
follow_booking_link_FinalUrl(resp) ==
    IF resp.raised \/ resp.status_code # OkStatus THEN <<>>
    ELSE IF Contains(resp.url, janeapp_com) \/ Contains(lower(resp.text), janeapp_com)
         THEN resp.url
    ELSE <<>>

follow_booking_link_Uncaught(resp) ==
    IF resp.raised THEN Propagated
    ELSE IF resp.status_code # OkStatus THEN <<>>
    ELSE IF Contains(resp.url, janeapp_com) THEN resp.url
    ELSE IF Contains(lower(resp.text), janeapp_com)
            /\ findall(jane_patterns[1], resp.text) # <<>>
         THEN rstrip_chars(findall(jane_patterns[1], resp.text)[1], TrailingChars)
    ELSE <<>>

\* lines 206-220, on what session.get gave
follow_booking_link(resp) ==
    IF resp.raised \/ resp.status_code # OkStatus THEN <<>>
    ELSE IF Contains(resp.url, janeapp_com) THEN resp.url
    ELSE IF Contains(lower(resp.text), janeapp_com)
            /\ findall(jane_patterns[1], resp.text) # <<>>
         THEN rstrip_chars(findall(jane_patterns[1], resp.text)[1], TrailingChars)
    ELSE <<>>

\* lines 184-192, on what session.get gave: the URL returned, or '' to go on
probe_result(resp) ==
    IF resp.raised \/ resp.status_code # OkStatus THEN <<>>
    ELSE IF Contains(resp.url, janeapp_com) THEN resp.url
    ELSE IF Contains(lower(resp.text), janeapp_com)
            /\ findall(jane_patterns[1], resp.text) # <<>>
         THEN rstrip_chars(findall(jane_patterns[1], resp.text)[1], TrailingChars)
    ELSE <<>>

\* ------------------------------------------------------------------------
\* ComprehensiveBookingExtractor.extract_from_website (lines 100-138) with
\* extract_booking_url step by step
\* ------------------------------------------------------------------------
MaxElements == 2

\* an element of a page: a run of text, or <a href="...">text</a>
TextEl(t) == [kind |-> "text", href |-> <<>>, text |-> t]
LinkEl(href, t) == [kind |-> "a", href |-> href, text |-> t]

Elements ==
    {TextEl(<<"s", "e", "e", " ", "h", "t", "t", "p", "s", ":", "/", "/", "A", ".", "j", "a", "n", "e", "a", "p", "p", ".", "c", "o", "m", "/", "x", ")", ",">>),
     TextEl(<<"h", "t", "t", "p", "s", ":", "/", "/", "j", "a", "n", "e", "a", "p", "p", "y", ".", "c", "o", "m", " ", "w", "e", "l", "c", "o", "m", "e", " ", "h", "t", "t", "p", "s", ":", "/", "/", "j", "a", "n", "e", "a", "p", "p", ".", "c", "o", "m", "/", "d">>),
     LinkEl(<<"h", "t", "t", "p", "s", ":", "/", "/", "b", ".", "j", "a", "n", "e", "a", "p", "p", ".", "c", "o", "m">>, <<"B", "o", "o", "k", " ", "N", "o", "w">>),
     LinkEl(<<"/", "b", "o", "o", "k">>, <<"B", "o", "o", "k", " ", "O", "n", "l", "i", "n", "e">>),
     LinkEl(<<"/", "/", "c", ".", "j", "a", "n", "e", "a", "p", "p", ".", "c", "o", "m", "/">>, <<"S", "c", "h", "e", "d", "u", "l", "e", " ", "N", "o", "w">>),
     LinkEl(<<"/", "a", "b", "o", "u", "t">>, <<"A", "b", "o", "u", "t", " ", "U", "s">>),
     LinkEl(<<"/", "c", "o", "n", "t", "a", "c", "t">>, <<" ", "C", "o", "n", "t", "a", "c", "t", " ", "u", "s", " ">>)}

WebPages == UNION {[1..n -> Elements] : n \in 0..MaxElements}

Html(el) ==
    IF el.kind = "a"
    THEN <<"<", "a", " ", "h", "r", "e", "f", "=", "\"">> \o el.href \o <<"\"", ">">> \o el.text \o <<"<", "/", "a", ">">>
    ELSE el.text

\* response.text: the elements one after another
RECURSIVE response_text(_)
response_text(pg) ==
    IF pg = <<>> THEN <<>>
    ELSE Html(Head(pg)) \o (IF Len(pg) > 1 THEN <<" ">> ELSE <<>>) \o response_text(Tail(pg))

\* line 120: page_text = response.text.lower()
page_text(pg) == lower(response_text(pg))

\* line 163: soup.find_all('a', href=True)
links(pg) == SelectSeq(pg, LAMBDA el : el.kind = "a")

\* lines 164-165 and 168
link_text(link) == lower(strip(link.text))
full_url(base, link) == urljoin(base, strip(link.href))

\* line 181: booking_paths[:5]
ProbedPaths == SubSeq(booking_paths, 1, 5)

WebsiteUrls == {<<"h", "t", "t", "p", "s", ":", "/", "/", "m", "y", "c", "l", "i", "n", "i", "c", ".", "c", "a">>, <<"h", "t", "t", "p", "s", ":", "/", "/", "m", "y", "c", "l", "i", "n", "i", "c", ".", "c", "a", "/">>}

\* what session.get can give for a request inside extract_booking_url
Responses(requested) ==
    {GetRaised,
     Got(404, requested, <<"n", "o", "t", " ", "f", "o", "u", "n", "d">>),
     Got(OkStatus, requested, <<"w", "e", "l", "c", "o", "m", "e">>),
     Got(OkStatus, <<"h", "t", "t", "p", "s", ":", "/", "/", "d", ".", "j", "a", "n", "e", "a", "p", "p", ".", "c", "o", "m", "/">>, <<"b", "o", "o", "k">>),
     Got(OkStatus, requested, <<"<", "a", " ", "h", "r", "e", "f", "=", "'", "h", "t", "t", "p", "s", ":", "/", "/", "E", ".", "J", "a", "n", "e", "A", "p", "p", ".", "c", "o", "m", "/", "'", ">">>),
     Got(OkStatus, requested, <<"p", "o", "w", "e", "r", "e", "d", " ", "b", "y", " ", "j", "a", "n", "e", "a", "p", "p", ".", "c", "o", "m">>)}

\* what session.get can give at line 115 when the page is not served
FailedGets(requested) ==
    {GetRaised, Got(404, requested, <<"n", "o", "t", " ", "f", "o", "u", "n", "d">>), Got(500, requested, <<"e", "r", "r", "o", "r">>)}

\* lines 222-249: extract_operating_hours finds nothing, or finds hours
FoundHours ==
    [EmptyHours EXCEPT !.weekday_earliest_am = <<"9", ":", "0", "0", " ", "A", "M">>, !.weekday_latest_pm = <<"5", ":", "0", "0", " ", "P", "M">>]
HoursOutcomes == {EmptyHours, FoundHours}

FailedData_Marked == [EmptyData EXCEPT !.booking_url = <<"e", "r", "r", "o", "r">>]

\* lines 116-117 and 134-137: data is returned as it was initialised
FailedData == EmptyData

\* a caller hands extract_from_website a clinic website
WebsiteCall ==
    /\ bpc = "idle"
    /\ website_url' \in WebsiteUrls
    /\ bpc' = "get"
    /\ UNCHANGED <<wresponse, webpage, li, pi, fetched, last, booking_url, strategy,
                   escaped, data, bookingRest>>

\* lines 115-117 and 134-137: the GET raises or is answered with another status
GetFails ==
    /\ bpc = "get"
    /\ wresponse' \in FailedGets(website_url)
    /\ data' = FailedData
    /\ bpc' = "returned"
    /\ UNCHANGED <<website_url, webpage, li, pi, fetched, last, booking_url, strategy,
                   escaped, bookingRest>>

\* lines 115-120: the page is served
GetPage ==
    /\ bpc = "get"
    /\ webpage' \in WebPages
    /\ wresponse' = Got(OkStatus, website_url, response_text(webpage'))
    /\ bpc' = "strategy1"
    /\ UNCHANGED <<website_url, li, pi, fetched, last, booking_url, strategy, escaped,
                   data, bookingRest>>

\* lines 152-160: booking_urls is a set, list(booking_urls)[0] is the element
\* its iteration happens to give first
Strategy1Found ==
    /\ bpc = "strategy1"
    /\ booking_urls(page_text(webpage)) # {}
    /\ booking_url' \in booking_urls(page_text(webpage))
    /\ strategy' = 1
    /\ bpc' = "hours"
    /\ UNCHANGED <<website_url, wresponse, webpage, li, pi, fetched, last, escaped, data,
                   bookingRest>>

\* line 159: booking_urls is empty
Strategy1None ==
    /\ bpc = "strategy1"
    /\ booking_urls(page_text(webpage)) = {}
    /\ bpc' = "strategy2"
    /\ li' = 1
    /\ UNCHANGED <<website_url, wresponse, webpage, pi, fetched, last, booking_url,
                   strategy, escaped, data, bookingRest>>

\* lines 163-167: no booking pattern in the text of the link
LinkSkip ==
    /\ bpc = "strategy2" /\ li <= Len(links(webpage))
    /\ ~IsBookingText(link_text(links(webpage)[li]))
    /\ li' = li + 1
    /\ UNCHANGED <<website_url, wresponse, webpage, bpc, pi, fetched, last, booking_url,
                   strategy, escaped, data, bookingRest>>

\* lines 167-171: the link itself leads to janeapp.com
LinkDirect ==
    /\ bpc = "strategy2" /\ li <= Len(links(webpage))
    /\ IsBookingText(link_text(links(webpage)[li]))
    /\ Contains(full_url(website_url, links(webpage)[li]), janeapp_com)
    /\ booking_url' = full_url(website_url, links(webpage)[li])
    /\ strategy' = 2
    /\ bpc' = "hours"
    /\ UNCHANGED <<website_url, wresponse, webpage, li, pi, fetched, last, escaped, data,
                   bookingRest>>

\* lines 173-177: the link is followed; an exception that left
\* follow_booking_link would leave extract_booking_url too and be caught at
\* line 134
LinkFollow ==
    /\ bpc = "strategy2" /\ li <= Len(links(webpage))
    /\ IsBookingText(link_text(links(webpage)[li]))
    /\ ~Contains(full_url(website_url, links(webpage)[li]), janeapp_com)
    /\ fetched' = Append(fetched, full_url(website_url, links(webpage)[li]))
    /\ last' \in Responses(full_url(website_url, links(webpage)[li]))
    /\ LET jane_url == follow_booking_link(last')
       IN  IF jane_url = Propagated
           THEN /\ escaped' = TRUE
                /\ bpc' = "returned"
                /\ UNCHANGED <<li, booking_url, strategy>>
           ELSE IF jane_url # <<>>
           THEN /\ booking_url' = jane_url
                /\ strategy' = 2
                /\ bpc' = "hours"
                /\ UNCHANGED <<li, escaped>>
           ELSE /\ li' = li + 1
                /\ UNCHANGED <<bpc, booking_url, strategy, escaped>>
    /\ UNCHANGED <<website_url, wresponse, webpage, pi, data, bookingRest>>

\* line 163 exhausted
LinksDone ==
    /\ bpc = "strategy2" /\ li > Len(links(webpage))
    /\ bpc' = "strategy3"
    /\ pi' = 1
    /\ UNCHANGED <<website_url, wresponse, webpage, li, fetched, last, booking_url,
                   strategy, escaped, data, bookingRest>>

\* lines 181-197: a common path is requested
Probe ==
    /\ bpc = "strategy3" /\ pi <= Len(ProbedPaths)
    /\ LET test_url == rstrip_chars(website_url, {"/"}) \o ProbedPaths[pi]
       IN  /\ fetched' = Append(fetched, test_url)
           /\ last' \in Responses(test_url)
    /\ IF probe_result(last') # <<>>
       THEN /\ booking_url' = probe_result(last')
            /\ strategy' = 3
            /\ bpc' = "hours"
            /\ UNCHANGED pi
       ELSE /\ pi' = pi + 1
            /\ UNCHANGED <<bpc, booking_url, strategy>>
    /\ UNCHANGED <<website_url, wresponse, webpage, li, escaped, data, bookingRest>>

\* line 199: return ''
PathsDone ==
    /\ bpc = "strategy3" /\ pi > Len(ProbedPaths)
    /\ booking_url' = <<>>
    /\ strategy' = 0
    /\ bpc' = "hours"
    /\ UNCHANGED <<website_url, wresponse, webpage, li, pi, fetched, last, escaped, data,
                   bookingRest>>

\* lines 123-137: the booking URL and the hours are put into data
HoursAndReturn ==
    /\ bpc = "hours"
    /\ \E found \in HoursOutcomes : data' = [booking_url |-> booking_url] @@ found
    /\ bpc' = "returned"
    /\ UNCHANGED <<website_url, wresponse, webpage, li, pi, fetched, last, booking_url,
                   strategy, escaped, bookingRest>>

BookingInit == AllIdle

BookingNext ==
    \/ WebsiteCall \/ GetFails \/ GetPage
    \/ Strategy1Found \/ Strategy1None
    \/ LinkSkip \/ LinkDirect \/ LinkFollow \/ LinksDone
    \/ Probe \/ PathsDone
    \/ HoursAndReturn

SpecBooking == BookingInit /\ [][BookingNext]_vars

\* ------------------------------------------------------------------------
\* KinesiologistNext200.search_clinic_website_multiple_methods and
\* search_google_with_backoff (example_usage.py, lines 402-456)
\* ------------------------------------------------------------------------
MaxLookups == 3

\* str(e) of the exceptions the Google search raises
ErrorMessages ==
    {<<"4", "2", "9", " ", "C", "l", "i", "e", "n", "t", " ", "E", "r", "r", "o", "r", ":", " ", "T", "o", "o", " ", "M", "a", "n", "y", " ", "R", "e", "q", "u", "e", "s", "t", "s", " ", "f", "o", "r", " ", "u", "r", "l">>,
     <<"T", "o", "o", " ", "M", "a", "n", "y", " ", "R", "e", "q", "u", "e", "s", "t", "s">>,
     <<"H", "T", "T", "P", "S", "C", "o", "n", "n", "e", "c", "t", "i", "o", "n", "P", "o", "o", "l", ":", " ", "R", "e", "a", "d", " ", "t", "i", "m", "e", "d", " ", "o", "u", "t">>}

IsRateLimit_StatusOnly(message) == Contains(message, <<"4", "2", "9">>)

\* line 451: "429" in str(e) or "Too Many Requests" in str(e)
IsRateLimit(message) ==
    \/ Contains(message, <<"4", "2", "9">>)
    \/ Contains(message, <<"T", "o", "o", " ", "M", "a", "n", "y", " ", "R", "e", "q", "u", "e", "s", "t", "s">>)

\* the website a method finds
FoundWebsite == <<"h", "t", "t", "p", "s", ":", "/", "/", "w", "w", "w", ".", "c", "o", "r", "e", "r", "e", "h", "a", "b", ".", "c", "a">>

\* lines 404-407: a caller looks a clinic up
LookupCall ==
    /\ mpc \in {"idle", "returned"}
    /\ total_attempts < MaxLookups
    /\ total_attempts' = total_attempts + 1
    /\ called' = <<>>
    /\ website' = NoneVal
    /\ mpc' = "google"
    /\ UNCHANGED <<google_blocked, successful_website_finds, provider_calls, last_error,
                   lookupRest>>

\* lines 425-427: Google is blocked, None is returned at once
GoogleSkipped ==
    /\ mpc = "google"
    /\ google_blocked
    /\ mpc' = "guess"
    /\ UNCHANGED <<google_blocked, total_attempts, successful_website_finds,
                   provider_calls, last_error, called, website, lookupRest>>

\* lines 441-445 and 408-409: the search gives a legitimate website
GoogleFinds ==
    /\ mpc = "google"
    /\ ~google_blocked
    /\ provider_calls' = provider_calls + 1
    /\ called' = Append(called, "google")
    /\ successful_website_finds' = successful_website_finds + 1
    /\ website' = FoundWebsite
    /\ mpc' = "returned"
    /\ UNCHANGED <<google_blocked, total_attempts, last_error, lookupRest>>

\* lines 441-448: the search gives no legitimate website
GoogleNothing ==
    /\ mpc = "google"
    /\ ~google_blocked
    /\ provider_calls' = provider_calls + 1
    /\ called' = Append(called, "google")
    /\ mpc' = "guess"
    /\ UNCHANGED <<google_blocked, total_attempts, successful_website_finds, last_error,
                   website, lookupRest>>

\* lines 441 and 450-456: the search raises
GoogleRaises ==
    /\ mpc = "google"
    /\ ~google_blocked
    /\ provider_calls' = provider_calls + 1
    /\ called' = Append(called, "google")
    /\ last_error' \in ErrorMessages
    /\ google_blocked' = IF IsRateLimit(last_error') THEN TRUE ELSE google_blocked
    /\ mpc' = "guess"
    /\ UNCHANGED <<total_attempts, successful_website_finds, website, lookupRest>>

\* the guessed website is not returned, DuckDuckGo is tried as well
GuessFinds_FallsThrough ==
    /\ mpc = "guess"
    /\ called' = Append(called, "guess")
    /\ successful_website_finds' = successful_website_finds + 1
    /\ website' = FoundWebsite
    /\ mpc' = "ddg"
    /\ UNCHANGED <<google_blocked, total_attempts, provider_calls, last_error, lookupRest>>

\* lines 412-414 and 480-483: guess_clinic_domain gives a website
GuessFinds ==
    /\ mpc = "guess"
    /\ called' = Append(called, "guess")
    /\ successful_website_finds' = successful_website_finds + 1
    /\ website' = FoundWebsite
    /\ mpc' = "returned"
    /\ UNCHANGED <<google_blocked, total_attempts, provider_calls, last_error, lookupRest>>

\* lines 412-413: guess_clinic_domain gives None
GuessNothing ==
    /\ mpc = "guess"
    /\ called' = Append(called, "guess")
    /\ mpc' = "ddg"
    /\ UNCHANGED <<google_blocked, total_attempts, successful_website_finds,
                   provider_calls, last_error, website, lookupRest>>

\* the website is returned and the find is not counted
DuckFinds_Uncounted ==
    /\ mpc = "ddg"
    /\ called' = Append(called, "ddg")
    /\ website' = FoundWebsite
    /\ mpc' = "returned"
    /\ UNCHANGED <<google_blocked, total_attempts, successful_website_finds,
                   provider_calls, last_error, lookupRest>>

\* lines 417-419 and 535-539: search_duckduckgo gives a website
DuckFinds ==
    /\ mpc = "ddg"
    /\ called' = Append(called, "ddg")
    /\ successful_website_finds' = successful_website_finds + 1
    /\ website' = FoundWebsite
    /\ mpc' = "returned"
    /\ UNCHANGED <<google_blocked, total_attempts, provider_calls, last_error, lookupRest>>

\* lines 417-421: search_duckduckgo gives None
DuckNothing ==
    /\ mpc = "ddg"
    /\ called' = Append(called, "ddg")
    /\ website' = NoneVal
    /\ mpc' = "returned"
    /\ UNCHANGED <<google_blocked, total_attempts, successful_website_finds,
                   provider_calls, last_error, lookupRest>>

LookupInit == AllIdle

LookupNext ==
    \/ LookupCall
    \/ GoogleSkipped \/ GoogleFinds \/ GoogleNothing \/ GoogleRaises
    \/ GuessFinds \/ GuessNothing
    \/ DuckFinds \/ DuckNothing

SpecLookup == LookupInit /\ [][LookupNext]_vars

\* ------------------------------------------------------------------------
\* KinesiologistNext200.scrape_next_200_practitioners and save_to_csv
\* (example_usage.py, lines 648-686 and 708-767)
\* ------------------------------------------------------------------------
max_practitioners == 200
checkpoint_interval == 25
target_start == 100

MaxDirectory == 310

\* A directory lists practitioners 1..size, per_page to a page; the
\* practitioners in lacking have no clinic location on their profile.
Directories ==
    {[size |-> n, per_page |-> 20, lacking |-> l] :
        n \in {MaxDirectory, 160, 90},
        l \in {{}, {101}, {k \in 1..MaxDirectory : k % 7 = 0}, 1..MaxDirectory}}

Min(a, b) == IF a < b THEN a ELSE b

\* lines 228-309: the practitioners of one page, none past the last page
extract_practitioners_from_page(d, n) ==
    [k \in 1..(Min(n * d.per_page, d.size) - Min((n - 1) * d.per_page, d.size)) |->
        (n - 1) * d.per_page + k]

\* lines 626-646 and 740: the profile has clinic locations
HasLocations(d, practitioner) == practitioner \notin d.lacking

save_to_csv_LastBatch(fs, rows, filename) ==
    IF rows = <<>> THEN fs
    ELSE [f \in DOMAIN fs \cup {filename} |->
            IF f = filename
            THEN SubSeq(rows, Len(rows) - checkpoint_interval + 1, Len(rows))
            ELSE fs[f]]

\* lines 648-686: nothing is written for an empty list; else the file is
\* opened with mode 'w' and gets one row for each practitioner
save_to_csv(fs, rows, filename) ==
    IF rows = <<>> THEN fs
    ELSE [f \in DOMAIN fs \cup {filename} |-> IF f = filename THEN rows ELSE fs[f]]

\* lines 708-717
ScrapeCall ==
    /\ cpc = "idle"
    /\ directory' \in Directories
    /\ page_num' = 1
    /\ practitioners' = <<>>
    /\ practitioners_seen' = 0
    /\ all_practitioners' = <<>>
    /\ checkpoint_count' = 0
    /\ cpc' = "while"
    /\ UNCHANGED <<files, scrapeRest>>

\* lines 719 and 767: the list is full, it is returned
ScrapeFull ==
    /\ cpc = "while"
    /\ ~(Len(all_practitioners) < max_practitioners)
    /\ cpc' = "done"
    /\ UNCHANGED <<directory, page_num, practitioners, practitioners_seen,
                   all_practitioners, checkpoint_count, files, scrapeRest>>

\* lines 719-724 and 767: the page has no practitioners
PageEmpty ==
    /\ cpc = "while"
    /\ Len(all_practitioners) < max_practitioners
    /\ extract_practitioners_from_page(directory, page_num) = <<>>
    /\ cpc' = "done"
    /\ UNCHANGED <<directory, page_num, practitioners, practitioners_seen,
                   all_practitioners, checkpoint_count, files, scrapeRest>>

\* lines 719-726: a page of practitioners
PageFetched ==
    /\ cpc = "while"
    /\ Len(all_practitioners) < max_practitioners
    /\ extract_practitioners_from_page(directory, page_num) # <<>>
    /\ practitioners' = extract_practitioners_from_page(directory, page_num)
    /\ cpc' = "for"
    /\ UNCHANGED <<directory, page_num, practitioners_seen, all_practitioners,
                   checkpoint_count, files, scrapeRest>>

\* lines 726-732: a practitioner of the first target_start is passed over
SkipSeen ==
    /\ cpc = "for"
    /\ practitioners # <<>>
    /\ practitioners_seen + 1 <= target_start
    /\ practitioners_seen' = practitioners_seen + 1
    /\ practitioners' = Tail(practitioners)
    /\ UNCHANGED <<directory, page_num, all_practitioners, checkpoint_count, files, cpc,
                   scrapeRest>>

\* lines 726-735 and 764: the list is full, the rest of the page is left
MaxBreak ==
    /\ cpc = "for"
    /\ practitioners # <<>>
    /\ ~(practitioners_seen + 1 <= target_start)
    /\ Len(all_practitioners) >= max_practitioners
    /\ practitioners_seen' = practitioners_seen + 1
    /\ practitioners' = <<>>
    /\ page_num' = page_num + 1
    /\ cpc' = "while"
    /\ UNCHANGED <<directory, all_practitioners, checkpoint_count, files, scrapeRest>>

\* the practitioner is added and no checkpoint is ever saved
AddPractitioner_NoCheckpoint ==
    /\ cpc = "for"
    /\ practitioners # <<>>
    /\ ~(practitioners_seen + 1 <= target_start)
    /\ Len(all_practitioners) < max_practitioners
    /\ HasLocations(directory, Head(practitioners))
    /\ practitioners_seen' = practitioners_seen + 1
    /\ all_practitioners' = Append(all_practitioners, Head(practitioners))
    /\ practitioners' = Tail(practitioners)
    /\ UNCHANGED <<directory, page_num, checkpoint_count, files, cpc, scrapeRest>>

\* lines 726-753: a practitioner with clinic locations is added, and the
\* checkpoint is saved when the length is a multiple of checkpoint_interval
AddPractitioner ==
    /\ cpc = "for"
    /\ practitioners # <<>>
    /\ ~(practitioners_seen + 1 <= target_start)
    /\ Len(all_practitioners) < max_practitioners
    /\ HasLocations(directory, Head(practitioners))
    /\ practitioners_seen' = practitioners_seen + 1
    /\ all_practitioners' = Append(all_practitioners, Head(practitioners))
    /\ IF Len(all_practitioners') % checkpoint_interval = 0
       THEN /\ checkpoint_count' = checkpoint_count + 1
            /\ files' = save_to_csv(files, all_practitioners',
                                     target_start + Len(all_practitioners'))
       ELSE UNCHANGED <<checkpoint_count, files>>
    /\ practitioners' = Tail(practitioners)
    /\ UNCHANGED <<directory, page_num, cpc, scrapeRest>>

\* lines 726-740 and 755-762: a practitioner without clinic locations
NoLocations ==
    /\ cpc = "for"
    /\ practitioners # <<>>
    /\ ~(practitioners_seen + 1 <= target_start)
    /\ Len(all_practitioners) < max_practitioners
    /\ ~HasLocations(directory, Head(practitioners))
    /\ practitioners_seen' = practitioners_seen + 1
    /\ practitioners' = Tail(practitioners)
    /\ UNCHANGED <<directory, page_num, all_practitioners, checkpoint_count, files, cpc,
                   scrapeRest>>

\* lines 726 and 764-765: the page is done
PageDone ==
    /\ cpc = "for"
    /\ practitioners = <<>>
    /\ page_num' = page_num + 1
    /\ cpc' = "while"
    /\ UNCHANGED <<directory, practitioners, practitioners_seen, all_practitioners,
                   checkpoint_count, files, scrapeRest>>

ScrapeInit == AllIdle

ScrapeNext ==
    \/ ScrapeCall
    \/ ScrapeFull \/ PageEmpty \/ PageFetched
    \/ SkipSeen \/ MaxBreak \/ AddPractitioner \/ NoLocations \/ PageDone

SpecScrape == ScrapeInit /\ [][ScrapeNext]_vars

\* ------------------------------------------------------------------------
\* ClinicHoursFinder.process_sample_records and search_clinic_hours
\* (clinic_hours_finder.py, lines 201-338)
\* ------------------------------------------------------------------------
MaxRecords == 3
MaxFetches == 1

\* the text a fetched page adds to all_text_content
HoursPages ==
    {<<"M", "o", "n", "d", "a", "y", ":", " ", "c", "l", "o", "s", "e", "d">>,
     <<"T", "u", "e", "s", "d", "a", "y", ":", " ", "9", "a", "m", "-", "5", "p", "m">>,
     <<"M", "o", "n", "-", "F", "r", "i", ":", " ", "9", "a", "m", "-", "5", "p", "m">>}

\* lines 310-316: hours_data.get(day, 'unknown') for the seven days
ResultHours(hd) == [d \in Days |-> IF hd = <<>> THEN unknown ELSE hd[d]]

\* lines 275-277: no record has a website
BatchEmpty ==
    /\ rpc = "idle"
    /\ records' = 0
    /\ rpc' = "done"
    /\ UNCHANGED <<idx, results, fetches, all_text_content, batchRest>>

\* lines 269-300 and 205-208: the first record is taken up
BatchCall ==
    /\ rpc = "idle"
    /\ records' \in 1..MaxRecords
    /\ idx' = 1
    /\ results' = <<>>
    /\ fetches' = 0
    /\ all_text_content' = <<>>
    /\ rpc' = "collect"
    /\ UNCHANGED batchRest

\* lines 213-226 and 244-254: the search or the request raises, or the
\* status is not 200; nothing is added
FetchNothing ==
    /\ rpc = "collect"
    /\ fetches < MaxFetches
    /\ fetches' = fetches + 1
    /\ UNCHANGED <<records, idx, results, all_text_content, rpc, batchRest>>

\* lines 225-242: the text of a page is added
FetchText ==
    /\ rpc = "collect"
    /\ fetches < MaxFetches
    /\ fetches' = fetches + 1
    /\ \E pg \in HoursPages : all_text_content' = all_text_content \o <<" ">> \o pg
    /\ UNCHANGED <<records, idx, results, rpc, batchRest>>

\* lines 257-264, 300-336 and 283 or 338: the hours are returned, the
\* result is appended, and the next record is taken up or the results returned
RecordDone ==
    /\ rpc = "collect"
    /\ ~extract_hours_from_text(all_text_content).raised
    /\ results' = Append(results, ResultHours(extract_hours_from_text(all_text_content).hd))
    /\ IF idx < records
       THEN /\ idx' = idx + 1
            /\ rpc' = "collect"
       ELSE /\ idx' = idx
            /\ rpc' = "done"
    /\ fetches' = 0
    /\ all_text_content' = <<>>
    /\ UNCHANGED <<records, batchRest>>

\* lines 257 and 300: extract_hours_from_text raises; neither
\* search_clinic_hours nor process_sample_records has a handler around the call
RecordRaises ==
    /\ rpc = "collect"
    /\ extract_hours_from_text(all_text_content).raised
    /\ rpc' = "raised"
    /\ UNCHANGED <<records, idx, results, fetches, all_text_content, batchRest>>

BatchInit == AllIdle

BatchNext ==
    \/ BatchEmpty \/ BatchCall
    \/ FetchNothing \/ FetchText
    \/ RecordDone \/ RecordRaises

SpecBatch == BatchInit /\ [][BatchNext]_vars

\* ------------------------------------------------------------------------
\* process_practitioners_batch and extract_practitioner_data
\* (comprehensive_booking_extractor.py, lines 512-540 and 67-98)
\* ------------------------------------------------------------------------
MaxEntries == 3

\* a key the dict does not have
Missing == <<"missing">>

\* practitioner.get(key, '')
get(entry, key) == IF entry[key] = Missing THEN <<>> ELSE entry[key]

ClinicWebsite == <<"h", "t", "t", "p", "s", ":", "/", "/", "m", "y", "c", "l", "i", "n", "i", "c", ".", "c", "a">>
PlacesWebsite == <<"h", "t", "t", "p", "s", ":", "/", "/", "p", "l", "a", "c", "e", "s", ".", "e", "x", "a", "m", "p", "l", "e", "/">>
JaneUrl == <<"h", "t", "t", "p", "s", ":", "/", "/", "d", ".", "j", "a", "n", "e", "a", "p", "p", ".", "c", "o", "m", "/">>

Entries ==
    {[name |-> n, clinic_website |-> w] :
        n \in {<<"A", "n", "n">>, <<"B", "o">>, <<>>, Missing},
        w \in {ClinicWebsite, <<>>, Missing}}

\* what extract_from_website returns (lines 104-138)
WebsiteData == {EmptyData, [booking_url |-> JaneUrl] @@ FoundHours}

\* what extract_from_google_apis returns (lines 353-391)
GoogleData ==
    {[clinic_website |-> <<>>] @@ EmptyData,
     [clinic_website |-> PlacesWebsite, booking_url |-> JaneUrl] @@ FoundHours}

extract_practitioner_data_AlwaysWebsite(practitioner_name, clinic_website, found) ==
    [data_source |-> "clinic_website"]
        @@ found
        @@ [practitioner_name |-> practitioner_name, clinic_website |-> clinic_website]
        @@ EmptyData

\* lines 73-98: the result is initialised, updated with what was found and
\* marked with its source
extract_practitioner_data(practitioner_name, clinic_website, found) ==
    [data_source |-> IF clinic_website # <<>> THEN "clinic_website" ELSE "google_apis"]
        @@ found
        @@ [practitioner_name |-> practitioner_name, clinic_website |-> clinic_website]
        @@ EmptyData

\* lines 512-522
PractitionersCall ==
    /\ ppc = "idle"
    /\ practitioners_data' \in UNION {[1..n -> Entries] : n \in 0..MaxEntries}
    /\ pidx' = 1
    /\ presults' = <<>>
    /\ ppc' = "loop"
    /\ UNCHANGED practitionersRest

\* lines 527-532: the entry has no name
EntrySkipped ==
    /\ ppc = "loop" /\ pidx <= Len(practitioners_data)
    /\ get(practitioners_data[pidx], "name") = <<>>
    /\ pidx' = pidx + 1
    /\ UNCHANGED <<practitioners_data, presults, ppc, practitionersRest>>

\* lines 527-538 and 85-90: the entry has a name and a website
EntryFromWebsite ==
    /\ ppc = "loop" /\ pidx <= Len(practitioners_data)
    /\ get(practitioners_data[pidx], "name") # <<>>
    /\ get(practitioners_data[pidx], "clinic_website") # <<>>
    /\ \E found \in WebsiteData :
          presults' = Append(presults,
                             extract_practitioner_data(get(practitioners_data[pidx], "name"),
                                                       get(practitioners_data[pidx], "clinic_website"),
                                                       found))
    /\ pidx' = pidx + 1
    /\ UNCHANGED <<practitioners_data, ppc, practitionersRest>>

\* lines 527-538 and 91-96: the entry has a name and no website
EntryFromGoogle ==
    /\ ppc = "loop" /\ pidx <= Len(practitioners_data)
    /\ get(practitioners_data[pidx], "name") # <<>>
    /\ get(practitioners_data[pidx], "clinic_website") = <<>>
    /\ \E found \in GoogleData :
          presults' = Append(presults,
                             extract_practitioner_data(get(practitioners_data[pidx], "name"),
                                                       get(practitioners_data[pidx], "clinic_website"),
                                                       found))
    /\ pidx' = pidx + 1
    /\ UNCHANGED <<practitioners_data, ppc, practitionersRest>>

\* lines 522 and 540: the list is exhausted
PractitionersReturn ==
    /\ ppc = "loop" /\ pidx > Len(practitioners_data)
    /\ ppc' = "returned"
    /\ UNCHANGED <<practitioners_data, pidx, presults, practitionersRest>>

PractitionersInit == AllIdle

PractitionersNext ==
    \/ PractitionersCall
    \/ EntrySkipped \/ EntryFromWebsite \/ EntryFromGoogle
    \/ PractitionersReturn

SpecPractitioners == PractitionersInit /\ [][PractitionersNext]_vars

\* ------------------------------------------------------------------------
\* ComprehensiveBookingExtractor.extract_from_google_apis and
\* parse_google_hours (comprehensive_booking_extractor.py, lines 349-391
\* and 453-510)
\* ------------------------------------------------------------------------
\* the en dash U+2013 of the pattern of line 481, written as one character
\* that no text of the model uses otherwise
EnDash == "~"

WordCls == Letters \cup DigitCls \cup {"_"}

\* r'(\w+):'
day_name_pattern == Cat(<<Grp(1, Rep(Cls(WordCls), 1, Unbounded)), Lit(<<":">>)>>)

\* r'(\d{1,2}):(\d{2})\s*(am|pm)\s*<en dash>\s*(\d{1,2}):(\d{2})\s*(am|pm)'
google_time_pattern ==
    Cat(<<Grp(1, Rep(D, 1, 2)), Lit(<<":">>), Grp(2, Rep(D, 2, 2)), WS, Grp(3, AmOrPm),
          WS, Lit(<<EnDash>>), WS,
          Grp(4, Rep(D, 1, 2)), Lit(<<":">>), Grp(5, Rep(D, 2, 2)), WS, Grp(6, AmOrPm)>>)

\* re.match(re, s): a match at the start of s
re_match(re, s) ==
    LET rs == M(re, s, 1, NoCaps)
    IN  IF rs = <<>> THEN NoMatch ELSE [found |-> TRUE, b |-> 1, e |-> rs[1].e, c |-> rs[1].c]

GoogleWeekdays ==
    {<<"m", "o", "n", "d", "a", "y">>, <<"t", "u", "e", "s", "d", "a", "y">>, <<"w", "e", "d", "n", "e", "s", "d", "a", "y">>, <<"t", "h", "u", "r", "s", "d", "a", "y">>, <<"f", "r", "i", "d", "a", "y">>}
GoogleWeekend == {<<"s", "a", "t", "u", "r", "d", "a", "y">>, <<"s", "u", "n", "d", "a", "y">>}

NamesAny(day_lower_text, names) == \E n \in names : Contains(day_lower_text, n)

\* lines 472-491, for one line of weekday_text: what it adds to closed_days,
\* weekday_hours and weekend_hours
ParsedLine(day_hours) ==
    LET t == lower(day_hours)
        day_match == re_match(day_name_pattern, day_hours)
        time_match == search(google_time_pattern, t)
        times == <<group(time_match, t, 1) \o <<":">> \o group(time_match, t, 2)
                       \o <<" ">> \o upper(group(time_match, t, 3)),
                   group(time_match, t, 4) \o <<":">> \o group(time_match, t, 5)
                       \o <<" ">> \o upper(group(time_match, t, 6))>>
        none == [closed_days |-> <<>>, weekday_hours |-> <<>>, weekend_hours |-> <<>>]
    IN  IF Contains(t, closed)
        THEN IF day_match.found
             THEN [none EXCEPT !.closed_days = <<group(day_match, day_hours, 1)>>]
             ELSE none
        ELSE IF ~time_match.found THEN none
        ELSE IF NamesAny(t, GoogleWeekdays) THEN [none EXCEPT !.weekday_hours = <<times>>]
        ELSE IF NamesAny(t, GoogleWeekend) THEN [none EXCEPT !.weekend_hours = <<times>>]
        ELSE none

\* lines 471-491: the three lists after the loop
RECURSIVE ParsedLines(_)
ParsedLines(weekday_text) ==
    IF weekday_text = <<>>
    THEN [closed_days |-> <<>>, weekday_hours |-> <<>>, weekend_hours |-> <<>>]
    ELSE LET h == ParsedLine(Head(weekday_text))
             r == ParsedLines(Tail(weekday_text))
         IN  [closed_days |-> h.closed_days \o r.closed_days,
              weekday_hours |-> h.weekday_hours \o r.weekday_hours,
              weekend_hours |-> h.weekend_hours \o r.weekend_hours]

\* ', '.join(words)
RECURSIVE join_comma(_)
join_comma(words) ==
    IF Len(words) <= 1 THEN (IF words = <<>> THEN <<>> ELSE words[1])
    ELSE words[1] \o <<",", " ">> \o join_comma(Tail(words))

\* lines 457-510
parse_google_hours(opening_hours) ==
    IF "weekday_text" \notin opening_hours.keys THEN EmptyHours
    ELSE LET p == ParsedLines(opening_hours.weekday_text)
         IN  [weekday_earliest_am |->
                  IF p.weekday_hours # <<>> THEN p.weekday_hours[1][1] ELSE <<>>,
              weekday_latest_pm |->
                  IF p.weekday_hours # <<>> THEN p.weekday_hours[1][2] ELSE <<>>,
              weekend_earliest_am |->
                  IF p.weekend_hours # <<>> THEN p.weekend_hours[1][1] ELSE <<>>,
              weekend_latest_pm |->
                  IF p.weekend_hours # <<>> THEN p.weekend_hours[1][2] ELSE <<>>,
              days_closed |-> join_comma(p.closed_days)]

\* the values of new are taken only where they are not empty
update_NonEmptyOnly(d, new) ==
    [k \in DOMAIN d \cup DOMAIN new |->
        IF k \in DOMAIN new /\ (k \notin DOMAIN d \/ new[k] # <<>>) THEN new[k] ELSE d[k]]

\* dict.update: lines 377 and 382
update(d, new) == new @@ d

MaxLines == 2

\* lines of opening_hours['weekday_text']
GoogleLines ==
    {<<"M", "o", "n", "d", "a", "y", ":", " ", "9", ":", "0", "0", " ", "A", "M", " ", "~", " ", "5", ":", "0", "0", " ", "P", "M">>,
     <<"T", "u", "e", "s", "d", "a", "y", ":", " ", "8", ":", "3", "0", " ", "A", "M", " ", "~", " ", "6", ":", "0", "0", " ", "P", "M">>,
     <<"S", "a", "t", "u", "r", "d", "a", "y", ":", " ", "1", "0", ":", "0", "0", " ", "A", "M", " ", "~", " ", "2", ":", "0", "0", " ", "P", "M">>,
     <<"S", "u", "n", "d", "a", "y", ":", " ", "C", "l", "o", "s", "e", "d">>,
     <<"M", "o", "n", "d", "a", "y", ":", " ", "O", "p", "e", "n", " ", "2", "4", " ", "h", "o", "u", "r", "s">>}

\* opening_hours, with or without the key 'weekday_text'
OpeningHours ==
    {NoOpeningHours}
        \cup {[keys |-> {"weekday_text"}, weekday_text |-> t] :
                 t \in UNION {[1..n -> GoogleLines] : n \in 0..MaxLines}}

\* what search_google_places returns: {} or a place with some of the keys
Places ==
    {[keys |-> ks,
      website |-> IF "website" \in ks THEN PlacesWebsite ELSE <<>>,
      opening_hours |-> IF "opening_hours" \in ks THEN h ELSE NoOpeningHours] :
        ks \in SUBSET {"website", "opening_hours"}, h \in OpeningHours}

\* lines 353-361
ApisCall ==
    /\ apc = "idle"
    /\ api_key' \in BOOLEAN
    /\ gdata' = [clinic_website |-> <<>>] @@ EmptyData
    /\ apc' = "key"
    /\ UNCHANGED <<places_data, website_data, googleRest>>

\* lines 363-365: no key, data is returned as initialised
NoApiKey ==
    /\ apc = "key" /\ ~api_key
    /\ apc' = "returned"
    /\ UNCHANGED <<api_key, places_data, website_data, gdata, googleRest>>

\* lines 367-371 and 393-427: the place found, or {} when nothing was
\* found or the search failed
PlacesSearch ==
    /\ apc = "key" /\ api_key
    /\ places_data' \in Places
    /\ apc' = "website"
    /\ UNCHANGED <<api_key, website_data, gdata, googleRest>>

\* lines 373-377: the place has a website, which is extracted from
PlaceWithWebsite ==
    /\ apc = "website" /\ "website" \in places_data.keys
    /\ website_data' \in WebsiteData
    /\ gdata' = update([gdata EXCEPT !.clinic_website = places_data.website], website_data')
    /\ apc' = "hours"
    /\ UNCHANGED <<api_key, places_data, googleRest>>

\* line 373: the place has no website
PlaceWithoutWebsite ==
    /\ apc = "website" /\ "website" \notin places_data.keys
    /\ apc' = "hours"
    /\ UNCHANGED <<api_key, places_data, website_data, gdata, googleRest>>

\* lines 380-391: the place has opening hours, which are parsed
PlaceWithHours ==
    /\ apc = "hours" /\ "opening_hours" \in places_data.keys
    /\ gdata' = update(gdata, parse_google_hours(places_data.opening_hours))
    /\ apc' = "returned"
    /\ UNCHANGED <<api_key, places_data, website_data, googleRest>>

\* lines 380 and 391: the place has no opening hours
PlaceWithoutHours ==
    /\ apc = "hours" /\ "opening_hours" \notin places_data.keys
    /\ apc' = "returned"
    /\ UNCHANGED <<api_key, places_data, website_data, gdata, googleRest>>

GoogleInit == AllIdle

GoogleNext ==
    \/ ApisCall \/ NoApiKey \/ PlacesSearch
    \/ PlaceWithWebsite \/ PlaceWithoutWebsite
    \/ PlaceWithHours \/ PlaceWithoutHours

SpecGoogle == GoogleInit /\ [][GoogleNext]_vars

\* ------------------------------------------------------------------------
\* ClinicHoursFinder.clean_search_term and generate_hours_search_queries
\* (clinic_hours_finder.py, lines 43-84)
\* ------------------------------------------------------------------------
Unknown == <<"U", "n", "k", "n", "o", "w", "n">>

\* ' '.join(words)
RECURSIVE join_space(_)
join_space(words) ==
    IF Len(words) <= 1 THEN (IF words = <<>> THEN <<>> ELSE words[1])
    ELSE words[1] \o <<" ">> \o join_space(Tail(words))

\* lines 45-51: nothing for NaN, 'Unknown' and ''; else every character
\* that is not of \w, \s, '-' or '.' becomes a space and runs of
\* whitespace become one space
clean_search_term(t) ==
    IF t = NoneVal \/ t = Unknown \/ t = <<>> THEN <<>>
    ELSE join_space(split([k \in DOMAIN t |->
                              IF t[k] \in WordCls \cup SpaceCls \cup {"-", "."}
                              THEN t[k] ELSE " "]))

Quoted(s) == <<"\"">> \o s \o <<"\"">>

\* lines 55-84
generate_hours_search_queries(name, clinic, address, site) ==
    LET cleaned_name == clean_search_term(name)
        clean_clinic == clean_search_term(clinic)
        clean_address == clean_search_term(address)
        clean_website == clean_search_term(site)
        domain == IF LitAt(<<"h", "t", "t", "p">>, clean_website, 1)
                  THEN Netloc(clean_website) ELSE clean_website
        qs == (IF clean_clinic # <<>>
               THEN <<Quoted(clean_clinic) \o <<" ", "h", "o", "u", "r", "s", " ", "o", "p", "e", "n", "i", "n", "g", " ", "t", "i", "m", "e", "s">>>> ELSE <<>>)
              \o (IF clean_clinic # <<>> /\ clean_address # <<>>
                  THEN <<Quoted(clean_clinic) \o <<" ">> \o Quoted(clean_address) \o <<" ", "h", "o", "u", "r", "s">>>>
                  ELSE <<>>)
              \o (IF clean_website # <<>> /\ clean_website # Unknown
                  THEN <<<<"s", "i", "t", "e", ":">> \o domain \o <<" ", "h", "o", "u", "r", "s", " ", "o", "p", "e", "n", "i", "n", "g", " ", "t", "i", "m", "e", "s">>>> ELSE <<>>)
              \o (IF clean_clinic # <<>>
                  THEN <<Quoted(clean_clinic) \o <<" ", "o", "p", "e", "n", " ", "m", "o", "n", "d", "a", "y", " ", "t", "u", "e", "s", "d", "a", "y", " ", "w", "e", "d", "n", "e", "s", "d", "a", "y", " ", "t", "h", "u", "r", "s", "d", "a", "y", " ", "f", "r", "i", "d", "a", "y">>>> ELSE <<>>)
              \o (IF cleaned_name # <<>> /\ clean_clinic # <<>>
                  THEN <<Quoted(cleaned_name) \o <<" ">> \o Quoted(clean_clinic) \o <<" ", "s", "c", "h", "e", "d", "u", "l", "e", " ", "h", "o", "u", "r", "s">>>>
                  ELSE <<>>)
    IN  SelectSeq(qs, LAMBDA q : strip(q) # <<>>)

\* the fields of a record of the spreadsheet
QueryNames == {<<"A", "n", "n", " ", "L", "e", "e">>, <<>>, NoneVal}
QueryClinics == {<<"C", "o", "r", "e", " ", "R", "e", "h", "a", "b">>, <<"O", "'", "N", "e", "i", "l", " ", "&", " ", "C", "o", ".">>, Unknown}
QueryAddresses == {<<"1", "2", " ", "M", "a", "i", "n", " ", "S", "t", ",", " ", "V", "a", "n", "c", "o", "u", "v", "e", "r">>, <<>>, Unknown}
QueryWebsites ==
    {<<"h", "t", "t", "p", "s", ":", "/", "/", "e", "x", "a", "m", "p", "l", "e", ".", "c", "o", "m", "/">>,
     <<"h", "t", "t", "p", ":", "/", "/", "w", "w", "w", ".", "c", "o", "r", "e", "-", "r", "e", "h", "a", "b", ".", "c", "a", "/", "h", "o", "u", "r", "s", "?", "x", "=", "1">>,
     <<"e", "x", "a", "m", "p", "l", "e", ".", "c", "o", "m">>, Unknown, <<>>}

\* line 53: the function is called for a record
QueriesCall ==
    /\ qpc = "idle"
    /\ qargs' \in [name : QueryNames, clinic_name : QueryClinics,
                     address : QueryAddresses, website : QueryWebsites]
    /\ qpc' = "called"
    /\ UNCHANGED <<queries, queriesRest>>

\* lines 55-84
QueriesReturn ==
    /\ qpc = "called"
    /\ queries' = generate_hours_search_queries(qargs.name, qargs.clinic_name,
                                                 qargs.address, qargs.website)
    /\ qpc' = "returned"
    /\ UNCHANGED <<qargs, queriesRest>>

QueriesInit == AllIdle

QueriesNext == QueriesCall \/ QueriesReturn

SpecQueries == QueriesInit /\ [][QueriesNext]_vars

\* ------------------------------------------------------------------------
\* Properties
\* ------------------------------------------------------------------------
\* 'H:MM AM/PM - H:MM AM/PM'
HoursStringForm ==
    Cat(<<Rep(D, 1, 2), Lit(<<":">>), Rep(D, 2, 2), Lit(<<" ">>), Alt(<<AM, PM>>),
          Lit(<<" ", "-", " ">>),
          Rep(D, 1, 2), Lit(<<":">>), Rep(D, 2, 2), Lit(<<" ">>), Alt(<<AM, PM>>)>>)

\* the whole of v has the form re
FullMatch(re, v) ==
    LET rs == M(re, v, 1, NoCaps) IN \E k \in DOMAIN rs : rs[k].e = Len(v) + 1

CanonicalValue(v) == v \in {unknown, closed} \/ FullMatch(HoursStringForm, v)

\* C1: for every text, empty and None included, extract_hours_from_text
\* returns a mapping whose keys are exactly the seven days and whose values
\* are 'unknown', 'closed' or a string 'H:MM AM/PM - H:MM AM/PM'.
C1_SevenDaysCanonicalValues ==
    pc \in {"done", "raised"} =>
        /\ pc = "done"
        /\ DOMAIN result = Days
        /\ \A d \in Days : CanonicalValue(result[d])

\* C2: a day the closed pass has set to 'closed' stays 'closed' through the
\* hours pass and the range pass, and is 'closed' in the mapping returned.
C2_ClosedNeverOverwritten ==
    [][\A d \in Days :
          (pc \in {"hours", "general"} /\ hours_data[d] = closed) =>
              /\ hours_data'[d] = closed
              /\ (pc' = "done" => result'[d] = closed)]_vars

\* a mapping was returned with a day closed although the text gives hours for it
C2_Witness ==
    /\ pc = "done"
    /\ DOMAIN result = Days
    /\ \E d \in Days :
          /\ result[d] = closed
          /\ search(day_patterns(d)[1], text).found

NineToFive == <<"9", "-", "5">>

\* C3, as claimed: format_hours("9-5") returns "9:00 AM - 5:00 PM".
C3_NineToFivePM ==
    (fpc = "formatted" /\ hours_text = NineToFive) =>
        formatted = <<"9", ":", "0", "0", " ", "A", "M", " ", "-", " ",
                      "5", ":", "0", "0", " ", "P", "M">>

\* C3, amended: format_hours("9-5") returns "9:00 AM - 5:00 AM", both hours
\* being below 12.
C3_NineToFiveAM ==
    (fpc = "formatted" /\ hours_text = NineToFive) =>
        formatted = <<"9", ":", "0", "0", " ", "A", "M", " ", "-", " ",
                      "5", ":", "0", "0", " ", "A", "M">>

C3_Witness == fpc = "formatted" /\ hours_text = NineToFive /\ formatted # unknown

\* the position of the first ch in s, 0 when there is none
IndexOfCh(s, ch) ==
    IF \E k \in DOMAIN s : s[k] = ch
    THEN CHOOSE k \in DOMAIN s : s[k] = ch /\ \A j \in 1..(k - 1) : s[j] # ch
    ELSE 0
AllDigits(s) == \A k \in DOMAIN s : s[k] \in DigitCls
HourPart(p) == IF IndexOfCh(p, ":") = 0 THEN p ELSE SubSeq(p, 1, IndexOfCh(p, ":") - 1)
MinutePart(p) == IF IndexOfCh(p, ":") = 0 THEN <<>> ELSE SubSeq(p, IndexOfCh(p, ":") + 1, Len(p))
\* an endpoint 'H', 'HH', 'H:MM' or 'HH:MM'
BareEndpoint(p) ==
    /\ Len(HourPart(p)) \in 1..2
    /\ AllDigits(HourPart(p))
    /\ IndexOfCh(p, ":") # 0 => (Len(MinutePart(p)) = 2 /\ AllDigits(MinutePart(p)))
\* a range 'S(:MM)-E(:MM)' with no am/pm marker
BareRange(x) ==
    /\ x # NoneVal
    /\ IndexOfCh(x, "-") # 0
    /\ BareEndpoint(SubSeq(x, 1, IndexOfCh(x, "-") - 1))
    /\ BareEndpoint(SubSeq(x, IndexOfCh(x, "-") + 1, Len(x)))
\* the endpoint as the convention shows it
ShownEndpoint(p) ==
    LET hour == StrToInt(HourPart(p))
        shown == IF hour = 0 THEN 12 ELSE IF hour > 12 THEN hour - 12 ELSE hour
    IN  IntToStr(shown) \o <<":">>
        \o (IF MinutePart(p) = <<>> THEN <<"0", "0">> ELSE MinutePart(p))
        \o <<" ">> \o (IF hour < 12 THEN <<"A", "M">> ELSE <<"P", "M">>)

FourteenToSeventeen == <<"1", "4", ":", "0", "0", "-", "1", "7", ":", "0", "0">>
TwoToFivePM ==
    <<"2", ":", "0", "0", " ", "P", "M", " ", "-", " ", "5", ":", "0", "0", " ", "P", "M">>

\* C4: for a range 'S(:MM)-E(:MM)' without am/pm marker each endpoint is
\* labelled on its own, AM below 12 and PM from 12 on, hour 0 is shown as 12
\* and an hour above 12 as hour-12, missing minutes as 00; "14:00-17:00"
\* gives "2:00 PM - 5:00 PM".
C4_BareRangeConvention ==
    /\ (fpc = "formatted" /\ BareRange(hours_text)) =>
          formatted = ShownEndpoint(SubSeq(hours_text, 1, IndexOfCh(hours_text, "-") - 1))
                      \o <<" ", "-", " ">>
                      \o ShownEndpoint(SubSeq(hours_text, IndexOfCh(hours_text, "-") + 1,
                                              Len(hours_text)))
    /\ (fpc = "formatted" /\ hours_text = FourteenToSeventeen) => formatted = TwoToFivePM

C4_Witness ==
    /\ fpc = "formatted"
    /\ hours_text = FourteenToSeventeen
    /\ formatted = TwoToFivePM

\* C5: format_hours is idempotent: formatting a value it returned gives
\* that value again.
C5_Idempotent == fpc = "reformatted" => formatted = hours_text

\* the text has neither the bare-number range form nor the am/pm range form
NeitherForm(x) ==
    LET t == lower(strip(x))
    IN  /\ ~(/\ search(time_pattern, t).found
             /\ ~Contains(t, <<"a", "m">>)
             /\ ~Contains(t, <<"p", "m">>))
        /\ ~search(am_pm_pattern, t).found

\* C6: a non-empty text that has neither form (such as '9-5pm') makes
\* format_hours return the literal 'unknown'.
C6_UnparseableIsUnknown ==
    (fpc = "formatted" /\ hours_text \notin {NoneVal, <<>>} /\ NeitherForm(hours_text)) =>
        formatted = unknown

\* "monday: closed, tuesday: 9am-5pm"
MondayClosedTuesdayNineToFive ==
    Clause(<<"m", "o", "n", "d", "a", "y">>, closed) \o <<",", " ">>
    \o Clause(<<"t", "u", "e", "s", "d", "a", "y">>, <<"9", "a", "m", "-", "5", "p", "m">>)

\* a general pattern matches and names both "mon" and "fri"
RangeMatches(t) ==
    \E k \in DOMAIN general_patterns :
        LET m == search(general_patterns[k], t) IN m.found /\ MonFri(group0(m, t))

\* C7: "monday: closed, tuesday: 9am-5pm" gives Monday 'closed', Tuesday
\* '9:00 AM - 5:00 PM' and 'unknown' for the other five days; in general a
\* day with no closed match, no per-day hours match and no range match keeps
\* 'unknown'.
C7_ExampleAndUnknownKept ==
    /\ (pc = "done" /\ text = MondayClosedTuesdayNineToFive) =>
          result = [d \in Days |->
                      IF d = "Monday" THEN closed
                      ELSE IF d = "Tuesday"
                           THEN <<"9", ":", "0", "0", " ", "A", "M", " ", "-", " ",
                                  "5", ":", "0", "0", " ", "P", "M">>
                           ELSE unknown]
    /\ (pc = "done" /\ DOMAIN result = Days) =>
          \A d \in Days :
              (/\ ~ClosedDay(d, text)
               /\ \A k \in 1..3 : ~search(day_patterns(d)[k], text).found
               /\ ~RangeMatches(text)) => result[d] = unknown

C7_Witness ==
    /\ pc = "done"
    /\ text = MondayClosedTuesdayNineToFive
    /\ result["Monday"] = closed
    /\ result["Wednesday"] = unknown

\* the mapping after the closed pass and the per-day hours pass
AfterDayPasses(t) == HoursPass(t, ClosedPass(t, InitHours))

\* C8: with a 'mon-fri: <start>-<end>' (or 'monday-friday: ...') range in the
\* text the function returns normally, gives the normalised range to each of
\* Monday..Friday still 'unknown' after the closed and per-day passes, and
\* leaves every other value as those passes left it.
C8_MonFriRangeAssigned ==
    (/\ pc \in {"done", "raised"}
     /\ text \notin {NoneVal, <<>>}
     /\ search(general_patterns[1], text).found) =>
        /\ pc = "done"
        /\ LET m == search(general_patterns[1], text)
               range == format_hours(group(m, text, 3))
               before == AfterDayPasses(text)
           IN  result = [d \in Days |->
                           IF d \in WeekDays /\ before[d] = unknown THEN range
                           ELSE before[d]]

\* C9: with a 'weekdays: <start>-<end>' range in the text and no per-day or
\* closed match, Monday..Friday get the normalised range.
C9_WeekdaysRangeAssigned ==
    (/\ pc \in {"done", "raised"}
     /\ text \notin {NoneVal, <<>>}
     /\ search(general_patterns[2], text).found
     /\ AfterDayPasses(text) = InitHours) =>
        /\ pc = "done"
        /\ \A d \in WeekDays :
              result[d] = format_hours(group(search(general_patterns[2], text), text, 1))

\* the host the URL names: what stands between "://" and the next "/"
HostStart(u) == FindAny(u, {":"}, 1) + 3
NamesHost(u) ==
    /\ HostStart(u) - 1 <= Len(u)
    /\ u[HostStart(u) - 2] = "/"
    /\ u[HostStart(u) - 1] = "/"
HostOf(u) == SubSeq(u, HostStart(u), FindAny(u, {"/"}, HostStart(u)) - 1)
HostExcluded(u) ==
    /\ NamesHost(u)
    /\ \E k \in DOMAIN excluded_domains : Contains(lower(HostOf(u)), excluded_domains[k])

\* C10: for every URL whose host contains an entry of the exclusion list,
\* validate_website returns (False, 0.0) and makes no HTTP request.
C10_ExcludedRejectedWithoutRequest ==
    [][(vpc = "call" /\ HostExcluded(url)) =>
          /\ vpc' = "returned"
          /\ vresult'.is_valid = FALSE
          /\ vresult'.num = 0
          /\ http_requests' = http_requests]_vars

\* an excluded URL was rejected after an earlier URL had been fetched
C10_Witness ==
    /\ vpc = "returned"
    /\ HostExcluded(url)
    /\ vresult = FalseZero
    /\ http_requests = 1

\* ------------------------------------------------------------------------
\* validate_website: the score
\* ------------------------------------------------------------------------
\* the keyword occurs somewhere in the page, letter case aside
OccursIn(kw, page) ==
    \E i \in 1..Len(page) :
        /\ i + Len(kw) - 1 <= Len(page)
        /\ \A j \in 1..Len(kw) : LowerCh(page[i + j - 1]) = kw[j]

KeywordsFound(page) == {kw \in Range(healthcare_keywords) : OccursIn(kw, page)}

\* C11: a call that fetched a page with status 200 returns k/13, k the number
\* of the 13 keywords found in the page, valid exactly when k >= 2 (k/13 > 0.1);
\* a call whose request raised or was answered with another status returns
\* (False, 0.0)
C11_ScoreIsKeywordFraction ==
    (vpc = "returned" /\ response # NoResponse) =>
        IF ~response.raised /\ response.status_code = 200
        THEN /\ vresult.num = Cardinality(KeywordsFound(response.text))
             /\ vresult.den = 13
             /\ 0 <= vresult.num /\ vresult.num <= vresult.den
             /\ vresult.is_valid <=> vresult.num >= 2
        ELSE /\ ~vresult.is_valid
             /\ vresult.num = 0

\* a fetched page with exactly one keyword was scored and found not valid
C11_Witness ==
    /\ vpc = "returned"
    /\ ~response.raised /\ response.status_code = 200
    /\ vresult.num = 1
    /\ ~vresult.is_valid

\* ------------------------------------------------------------------------
\* search_for_website: which candidate is returned
\* ------------------------------------------------------------------------
\* the valid candidates before position i
ValidBefore(i) == {j \in 1..(i - 1) : examined[j].is_valid}

\* candidate i is valid, beats every valid candidate before it and is above 0.3
Stops(i) ==
    /\ examined[i].is_valid
    /\ \A j \in ValidBefore(i) : Gt(examined[i].score, examined[j].score)
    /\ Gt(examined[i].score, Zero)
    /\ 10 * examined[i].score.num > 3 * examined[i].score.den

Stoppers == {i \in 1..Len(examined) : Stops(i)}
Valid == {i \in 1..Len(examined) : examined[i].is_valid}

\* the earliest of the valid candidates with the highest score
Best ==
    CHOOSE i \in Valid :
        \A j \in Valid : /\ ~Gt(examined[j].score, examined[i].score)
                          /\ (j < i => Gt(examined[i].score, examined[j].score))

\* every query was run and the results of the last one were gone through
AllQueriesDone == qi > nqueries /\ ~inquery

\* C19: the call returns the first candidate that is valid, beats the best so
\* far and scores above 0.3, and validated nothing after it; without such a
\* candidate it returns only after all queries, the earliest valid candidate
\* of the highest score, and (None, 0.0) when no candidate was valid
C19_FirstHighOrBest ==
    spc = "returned" =>
        IF Stoppers # {}
        THEN /\ Stoppers = {Len(examined)}
             /\ sreturn.website = examined[Len(examined)].url
             /\ sreturn.score = examined[Len(examined)].score
        ELSE /\ AllQueriesDone
             /\ IF Valid # {}
                THEN /\ sreturn.website = examined[Best].url
                     /\ sreturn.score = examined[Best].score
                ELSE /\ sreturn.website = NoneVal
                     /\ sreturn.score = Zero

\* two valid candidates tied below 0.3 on different URLs: the earlier is returned
C19_Witness ==
    /\ spc = "returned"
    /\ Stoppers = {}
    /\ \E i, j \in Valid :
          /\ i < j
          /\ examined[i].score = examined[j].score
          /\ examined[i].url # examined[j].url
          /\ Best = i

\* ------------------------------------------------------------------------
\* check_domain_exists: what an accepted page holds
\* ------------------------------------------------------------------------
\* the words of the clinic name found in the page, letter case aside
TokensFound(name, page) == {w \in Range(split(lower(name))) : OccursIn(w, page)}

\* the healthcare keywords found in the page, letter case aside
KinKeywordsFound(page) == {kw \in Range(kin_healthcare_keywords) : OccursIn(kw, page)}

\* C12: a guessed domain is accepted only when the fetch gave status 200, a
\* word of the clinic name occurs in the page and two healthcare keywords
\* occur in it; a page without any keyword is rejected; guess_clinic_domain
\* returns a URL only when check_domain_exists accepted it
C12_AcceptedOnlyOnNameAndKeywords ==
    /\ (gpc = "checked" /\ accepted) =>
            /\ ~gresponse.raised /\ gresponse.status_code = 200
            /\ TokensFound(clinic_name, gresponse.text) # {}
            /\ Cardinality(KinKeywordsFound(gresponse.text)) >= 2
    /\ (gpc = "checked" /\ KinKeywordsFound(gresponse.text) = {}) => ~accepted
    /\ (gpc = "returned" /\ gresult # NoneVal) => (accepted /\ gresult = gurl)

\* a guess was accepted and returned after earlier guesses were rejected or
\* passed over
C12_Witness ==
    /\ gpc = "returned"
    /\ gresult # NoneVal
    /\ gi > 1

\* ------------------------------------------------------------------------
\* extract_booking_url: the order of the strategies
\* ------------------------------------------------------------------------
\* extract_booking_url has returned
BookingReturned == bpc \in {"hours", "returned"} /\ wresponse.status_code = 200 /\ ~escaped

\* the page text holds a URL of janeapp.com: http(s)://, a host ending in
\* janeapp.com, then the end of the URL
SignatureAt(t, i) ==
    /\ LitAt(janeapp_com, t, i)
    /\ \E b \in 1..i :
          /\ \/ LitAt(<<"h", "t", "t", "p", ":", "/", "/">>, t, b) /\ b + 7 <= i
             \/ LitAt(<<"h", "t", "t", "p", "s", ":", "/", "/">>, t, b) /\ b + 8 <= i
          /\ \A k \in (b + 8)..(i - 1) : t[k] # "/"
HasSignature(t) == \E i \in 1..Len(t) : SignatureAt(t, i)

\* the response holds a janeapp.com URL: it was redirected there, or its body
\* links there
Yields(resp) ==
    /\ ~resp.raised
    /\ resp.status_code = 200
    /\ \/ Contains(resp.url, janeapp_com)
       \/ HasSignature(lower(resp.text))

\* the booking links of the page that strategy 2 has to follow
FollowedLinks ==
    SelectSeq(links(webpage),
              LAMBDA l : /\ IsBookingText(link_text(l))
                         /\ ~Contains(full_url(website_url, l), janeapp_com))

\* C13: strategy 1 returns without any request; strategy 2 runs only when
\* strategy 1 found nothing, strategy 3 only when strategy 2 went through
\* all links; a request that yields a URL ends the extraction; '' is
\* returned only after every link and all five paths were tried in vain
C13_StrategiesInOrder ==
    /\ (bpc \in {"strategy2", "strategy3"} \/ BookingReturned) =>
          /\ HasSignature(page_text(webpage)) <=> (strategy = 1 /\ BookingReturned)
          /\ strategy = 1 => (fetched = <<>> /\ li = 0 /\ pi = 0)
          /\ (strategy = 2 /\ BookingReturned) => pi = 0
          /\ (bpc = "strategy3" \/ pi > 0) => li > Len(links(webpage))
          /\ (fetched # <<>> /\ Yields(last)) => (BookingReturned /\ booking_url # <<>>)
    /\ BookingReturned =>
          /\ booking_url = <<>> <=> strategy = 0
          /\ strategy = 0 =>
                /\ ~HasSignature(page_text(webpage))
                /\ li > Len(links(webpage))
                /\ pi > 5
                /\ Len(fetched) = Len(FollowedLinks) + 5
                /\ ~Yields(last)

\* strategy 3 returned a URL after strategy 2 had followed a link in vain
C13_Witness ==
    /\ BookingReturned
    /\ strategy = 3
    /\ Len(fetched) >= 2
    /\ Len(FollowedLinks) >= 1

\* ------------------------------------------------------------------------
\* extract_booking_url: which of several URLs strategy 1 returns
\* ------------------------------------------------------------------------
\* the place where u first stands in t
FirstPosition(u, t) == CHOOSE k \in 1..Len(t) : LitAt(u, t, k) /\ \A j \in 1..(k - 1) : ~LitAt(u, t, j)

\* C14: of several janeapp.com URLs in the page text, strategy 1 returns the
\* one that stands first in the text
C14_FirstInTextReturned ==
    (BookingReturned /\ strategy = 1) =>
        \A other \in booking_urls(page_text(webpage)) :
            FirstPosition(booking_url, page_text(webpage)) <= FirstPosition(other, page_text(webpage))

\* ------------------------------------------------------------------------
\* extract_booking_url: a request that raises
\* ------------------------------------------------------------------------
\* the URLs extract_booking_url may request, in the order it comes to them:
\* the booking links to follow, then the five paths
Candidates ==
    [k \in DOMAIN FollowedLinks |-> full_url(website_url, FollowedLinks[k])]
        \o [k \in DOMAIN ProbedPaths |-> rstrip_chars(website_url, {"/"}) \o ProbedPaths[k]]

\* a step in which a request was made and raised
FetchRaises == fetched' # fetched /\ last'.raised

\* C15: a request that raises gives up its own candidate only: no exception
\* leaves extract_booking_url, nothing is returned by the step, the same
\* strategy goes on with the next link or path, and the requests made so far
\* are the candidates in their order, each one once
C15_FailedFetchAbandonsCandidateOnly ==
    [][FetchRaises =>
          /\ ~escaped'
          /\ bpc' = bpc
          /\ UNCHANGED <<booking_url, strategy, data>>
          /\ bpc = "strategy2" => (li' = li + 1 /\ pi' = pi)
          /\ bpc = "strategy3" => (pi' = pi + 1 /\ li' = li)
          /\ Len(fetched') = Len(fetched) + 1
          /\ Len(fetched') <= Len(Candidates)
          /\ fetched' = SubSeq(Candidates, 1, Len(fetched'))]_vars

\* the request for the last booking link raised and strategy 3 was begun
C15_Witness ==
    /\ bpc = "strategy3"
    /\ pi = 1
    /\ fetched # <<>>
    /\ last.raised

\* ------------------------------------------------------------------------
\* extract_from_website: a failed fetch
\* ------------------------------------------------------------------------
DataFields ==
    {"booking_url", "weekday_earliest_am", "weekday_latest_pm",
     "weekend_earliest_am", "weekend_latest_pm", "days_closed"}

AllFieldsEmpty == DOMAIN data = DataFields /\ \A f \in DataFields : data[f] = <<>>

\* the page was served and neither a booking URL nor hours were found on it
NothingFound ==
    /\ ~wresponse.raised /\ wresponse.status_code = 200
    /\ strategy = 0 /\ booking_url = <<>>
    /\ \A f \in DataFields \ {"booking_url"} : data[f] = <<>>

FetchFailed == wresponse.raised \/ wresponse.status_code # 200

\* C18: extract_from_website returns, after a GET that raised or was answered
\* with another status than 200, the dict of six empty strings and nothing
\* else, which is what it returns for a page on which nothing was found; it
\* returns normally
C18_FailedFetchLooksLikeNothingFound ==
    bpc = "returned" =>
        /\ FetchFailed => (AllFieldsEmpty /\ ~escaped)
        /\ NothingFound => AllFieldsEmpty
        /\ DOMAIN data = DataFields

\* the GET raised and extract_from_website has returned
C18_Witness ==
    /\ bpc = "returned"
    /\ wresponse.raised

\* ------------------------------------------------------------------------
\* search_google_with_backoff: the blocked flag
\* ------------------------------------------------------------------------
\* the message of a rate-limit error
RateLimitMessage(message) ==
    \/ \E k \in 1..Len(message) : LitAt(<<"4", "2", "9">>, message, k)
    \/ \E k \in 1..Len(message) : LitAt(<<"T", "o", "o", " ", "M", "a", "n", "y", " ", "R", "e", "q", "u", "e", "s", "t", "s">>, message, k)

\* C20: a rate-limit error sets google_blocked; once set the flag stays set,
\* and a Google search that is begun then returns None to the lookup, which
\* goes on with the domain guess, and the search provider is not called again
C20_BlockedStaysBlocked ==
    [][/\ (last_error' # last_error /\ RateLimitMessage(last_error')) => google_blocked'
       /\ google_blocked =>
             /\ google_blocked'
             /\ provider_calls' = provider_calls
             /\ mpc = "google" => (mpc' = "guess" /\ website' = NoneVal /\ called' = <<>>)]_vars

\* a later lookup has passed Google over and come to the domain guess
C20_Witness ==
    /\ google_blocked
    /\ total_attempts >= 2
    /\ mpc = "guess"
    /\ called = <<>>

\* ------------------------------------------------------------------------
\* scrape_next_200_practitioners: the checkpoint files
\* ------------------------------------------------------------------------
\* the step writes the file named by number and no other
WritesOnly(number) ==
    /\ DOMAIN files' = DOMAIN files \cup {number}
    /\ \A f \in DOMAIN files : f # number => files'[f] = files[f]

\* C16: a checkpoint file is written by the very step that brings the list
\* of practitioners with clinic locations to a multiple of 25, and by no
\* other step; the file is a new one and holds the whole list; the scrape
\* then goes on with the next practitioner of the page
C16_CheckpointAtEachMultiple ==
    [][/\ files' # files => all_practitioners' # all_practitioners
       /\ all_practitioners' # all_practitioners =>
             LET n == Len(all_practitioners')
                 number == target_start + n
             IN  /\ n = Len(all_practitioners) + 1
                 /\ SubSeq(all_practitioners', 1, n - 1) = all_practitioners
                 /\ all_practitioners'[n] \notin directory.lacking
                 /\ IF n % checkpoint_interval = 0
                    THEN /\ number \notin DOMAIN files
                         /\ WritesOnly(number)
                         /\ files'[number] = all_practitioners'
                         /\ checkpoint_count' = checkpoint_count + 1
                    ELSE files' = files
                 /\ cpc' = "for"
                 /\ practitioners' = Tail(practitioners)]_vars

\* the second checkpoint is written and the scrape has gone on, in a
\* directory where some practitioners have no clinic location
C16_Witness ==
    /\ Cardinality(DOMAIN files) = 2
    /\ Len(all_practitioners) > 2 * checkpoint_interval
    /\ directory.lacking # {}
    /\ target_start + 2 * checkpoint_interval \in DOMAIN files
    /\ files[target_start + 2 * checkpoint_interval] =
           SubSeq(all_practitioners, 1, 2 * checkpoint_interval)

\* ------------------------------------------------------------------------
\* process_sample_records: the batch goes on
\* ------------------------------------------------------------------------
\* C17: whatever the pages of a record give, the batch is not stopped: the
\* record in hand gets its result and, once the batch is over, every record
\* has one
C17_NoOutcomeStopsBatch ==
    /\ rpc # "raised"
    /\ rpc = "done" => Len(results) = records

\* ------------------------------------------------------------------------
\* search_clinic_website_multiple_methods: the order of the methods
\* ------------------------------------------------------------------------
\* the methods that come after m
LaterMethods(m) ==
    CASE m = "google" -> {"guess", "ddg"}
      [] m = "guess" -> {"ddg"}
      [] OTHER -> {}

\* the methods run are in the order google, guess, ddg
InMethodOrder(log) ==
    \A i, j \in 1..Len(log) : i < j => log[j] \in LaterMethods(log[i])

\* C21: a lookup passes from Google to the domain guess to DuckDuckGo, a
\* method is left for the next one only with nothing found (an exception
\* in it included), the first website found is returned with no later
\* method run, and None is returned only after DuckDuckGo found nothing
C21_MethodsInOrder ==
    [][/\ InMethodOrder(called')
       /\ mpc' # mpc =>
             \/ mpc \in {"idle", "returned"} /\ mpc' = "google"
             \/ mpc = "google" /\ mpc' = "guess" /\ website' = NoneVal
             \/ mpc = "guess" /\ mpc' = "ddg" /\ website' = NoneVal
             \/ /\ mpc \in {"google", "guess", "ddg"}
                /\ mpc' = "returned"
                /\ website' # NoneVal
                /\ called' = Append(called, mpc)
             \/ /\ mpc = "ddg"
                /\ mpc' = "returned"
                /\ website' = NoneVal
                /\ called' = Append(called, "ddg")
                /\ Len(called) >= 1
                /\ called[Len(called)] = "guess"]_vars

\* all three methods were run and found nothing
C21_Witness ==
    /\ mpc = "returned"
    /\ website = NoneVal
    /\ called = <<"google", "guess", "ddg">>
    /\ last_error # <<>>

\* ------------------------------------------------------------------------
\* KinesiologistNext200: the running counters
\* ------------------------------------------------------------------------
\* the step returns from the lookup
LookupReturns == mpc # "returned" /\ mpc' = "returned"

\* C24: the finds never exceed the attempts; a lookup adds one to
\* the attempts, once, as it begins, and one to the finds exactly when it
\* returns a website
C24_FindsWithinAttempts ==
    [][/\ successful_website_finds' <= total_attempts'
       /\ IF mpc' = "google" /\ mpc # "google"
          THEN total_attempts' = total_attempts + 1
          ELSE total_attempts' = total_attempts
       /\ IF LookupReturns /\ website' # NoneVal
          THEN successful_website_finds' = successful_website_finds + 1
          ELSE successful_website_finds' = successful_website_finds]_vars

\* three lookups are over, two of them with a website
C24_Witness ==
    /\ mpc = "returned"
    /\ website = NoneVal
    /\ total_attempts = 3
    /\ successful_website_finds = 2

\* ------------------------------------------------------------------------
\* scrape_next_200_practitioners: what an interruption can lose
\* ------------------------------------------------------------------------
\* the checkpoint written last: its number is the greatest, the list only grows
LatestCheckpoint ==
    IF DOMAIN files = {} THEN <<>>
    ELSE files[CHOOSE f \in DOMAIN files : \A g \in DOMAIN files : g <= f]

\* the accumulated practitioners that the latest checkpoint does not hold
Unsaved == Len(all_practitioners) - Len(LatestCheckpoint)

LinkServed ==
    /\ bpc = "strategy2"
    /\ fetched' # fetched
    /\ ~last'.raised
    /\ last'.status_code = 200

\* the step returns u from extract_booking_url as the find of strategy 2
LinkReturns(u) == bpc' = "hours" /\ strategy' = 2 /\ booking_url' = u

\* the fetch ended at the platform, or the body names the platform
ShowsPlatform(resp) ==
    Contains(resp.url, janeapp_com) \/ Contains(lower(resp.text), janeapp_com)

\* C23, as claimed: whenever the fetched page redirects to the platform or
\* has the signature in its body, the final URL of the fetch is returned
C23_FinalUrlReturned ==
    [][(LinkServed /\ ShowsPlatform(last')) => LinkReturns(last'.url)]_vars

\* C23, amended: the final URL is returned when it carries the signature;
\* otherwise, with the signature in the body, the first janeapp.com URL of
\* the body is returned, without its trailing punctuation, and when the
\* body holds no such URL nothing is returned and the next link is taken up
C23_FinalUrlOrUrlOfBody ==
    [][LinkServed =>
          IF Contains(last'.url, janeapp_com)
          THEN LinkReturns(last'.url)
          ELSE IF HasSignature(lower(last'.text))
          THEN /\ bpc' = "hours" /\ strategy' = 2
               /\ booking_url' # last'.url
               /\ Contains(last'.text, booking_url')
               /\ HasSignature(lower(booking_url'))
               /\ LitAt(<<"h", "t", "t", "p">>, lower(booking_url'), 1)
               /\ booking_url'[Len(booking_url')] \notin TrailingChars
          ELSE /\ bpc' = "strategy2"
               /\ li' = li + 1
               /\ UNCHANGED <<booking_url, strategy>>]_vars

\* a followed link was served from the clinic's own site and the URL
\* returned is one found in its body
C23_Witness ==
    /\ bpc = "hours"
    /\ strategy = 2
    /\ fetched # <<>>
    /\ ~Contains(last.url, janeapp_com)
    /\ Contains(last.text, booking_url)

\* ------------------------------------------------------------------------
\* extract_booking_url: only platform URLs are returned
\* ------------------------------------------------------------------------
\* C26: a non-empty value returned by extract_booking_url, whichever
\* strategy found it, contains 'janeapp.com' when letter case is set aside,
\* and so does the booking_url of the data returned
C26_OnlyPlatformUrls ==
    /\ (bpc \in {"hours", "returned"} /\ booking_url # <<>>) =>
          /\ strategy \in {1, 2, 3}
          /\ Contains(lower(booking_url), janeapp_com)
    /\ (bpc = "returned" /\ data.booking_url # <<>>) =>
          Contains(lower(data.booking_url), janeapp_com)

\* a page with a booking link to the clinic's own site and strategy 3
\* returning a URL whose host is written in capitals
C26_Witness ==
    /\ bpc = "returned"
    /\ strategy = 3
    /\ Len(FollowedLinks) >= 1
    /\ data.booking_url # <<>>
    /\ ~Contains(data.booking_url, janeapp_com)

\* ------------------------------------------------------------------------
\* search_for_website: the query reported with the website
\* ------------------------------------------------------------------------
\* the queries whose results held the website u
QueriesWith(u) == {examined[i].query : i \in {j \in 1..Len(examined) : examined[j].url = u}}

\* C28: when a website is returned, the query returned with it is one
\* whose search results contained that website
C28_QueryUsedFoundWebsite ==
    (spc = "returned" /\ sreturn.website # NoneVal) =>
        sreturn.query \in QueriesWith(sreturn.website)

\* ------------------------------------------------------------------------
\* extract_hours_from_text: a closed-word of the day before
\* ------------------------------------------------------------------------

NineAmToFivePm == <<"9", "a", "m", "-", "5", "p", "m">>

\* the day stands in the text with the range 9am-5pm right after it
HasOwnHours(day, t) == Contains(t, Clause(day_lower(day), NineAmToFivePm))

\* the day stands in the text with a closed-word right after it
HasOwnClosedWord(day, t) ==
    \E w \in Range(closed_indicators) : Contains(t, Clause(day_lower(day), w))

\* the day is named once in the text
NamedOnce(day, t) == Cardinality({k \in 1..Len(t) : LitAt(day_lower(day), t, k)}) = 1

\* C30: a day that the text names once, with an explicit range and so with
\* no closed-word of its own, is returned with that range in normal form,
\* whatever stands before the day in the listing
C30_ClosedWordOfDayBefore ==
    pc = "done" =>
        \A d \in Days :
            (NamedOnce(d, text) /\ HasOwnHours(d, text) /\ ~HasOwnClosedWord(d, text)) =>
                result[d] = format_hours(NineAmToFivePm)

\* ------------------------------------------------------------------------
\* process_practitioners_batch: one result for each named entry
\* ------------------------------------------------------------------------
IsEmpty(v) == v = Missing \/ v = <<>>

\* the entries gone through so far that have a name, in their order
NamedSoFar ==
    SelectSeq(SubSeq(practitioners_data, 1, pidx - 1), LAMBDA e : ~IsEmpty(e.name))

\* C22: the results are, in the order of the input, one for each entry with
\* a non-empty name and none for the others; a result is marked
\* 'clinic_website' when its entry has a non-empty clinic_website and
\* 'google_apis' otherwise; the batch returns after the last entry
C22_OneResultPerNamedEntry ==
    ppc \in {"loop", "returned"} =>
        /\ ppc = "returned" => pidx = Len(practitioners_data) + 1
        /\ Len(presults) = Len(NamedSoFar)
        /\ \A k \in 1..Len(presults) :
              /\ presults[k].practitioner_name = NamedSoFar[k].name
              /\ presults[k].data_source =
                     IF IsEmpty(NamedSoFar[k].clinic_website)
                     THEN "google_apis" ELSE "clinic_website"

\* an entry without a name lies between two with a name, the first with a
\* website, the last without
C22_Witness ==
    /\ ppc = "returned"
    /\ Len(practitioners_data) = 3
    /\ IsEmpty(practitioners_data[2].name)
    /\ Len(presults) = 2
    /\ presults[1].data_source = "clinic_website"
    /\ presults[2].data_source = "google_apis"

\* ------------------------------------------------------------------------
\* extract_from_google_apis: the hours of the place replace those of the website
\* ------------------------------------------------------------------------
HoursFields == DOMAIN EmptyHours

\* the place has both a website and opening hours
BothGiven == {"website", "opening_hours"} \subseteq places_data.keys

\* C27: for a place with a website and opening hours the five hours
\* fields returned are those parse_google_hours gives for the payload, an
\* empty one included, and booking_url is the one extracted from the website
C27_PlaceHoursReplaceWebsiteHours ==
    (apc = "returned" /\ api_key /\ BothGiven) =>
        /\ \A f \in HoursFields :
              gdata[f] = parse_google_hours(places_data.opening_hours)[f]
        /\ gdata.booking_url = website_data.booking_url
        /\ gdata.clinic_website = places_data.website

\* the website gave hours and a booking URL, the place's opening hours
\* gave nothing: the hours returned are empty, the booking URL is kept
C27_Witness ==
    /\ apc = "returned" /\ api_key /\ BothGiven
    /\ website_data.weekday_earliest_am # <<>>
    /\ website_data.booking_url # <<>>
    /\ "weekday_text" \in places_data.opening_hours.keys
    /\ Len(places_data.opening_hours.weekday_text) = 1
    /\ gdata.weekday_earliest_am = <<>>
    /\ gdata.booking_url = website_data.booking_url

\* ------------------------------------------------------------------------
\* generate_hours_search_queries: the order of the queries and the site: query
\* ------------------------------------------------------------------------
\* the field is empty after cleaning
Blank(v) == clean_search_term(v) = <<>>

\* what the site: query has to name: the host of an http(s) URL, else the
\* cleaned website
SiteOf(site) ==
    IF LitAt(<<"h", "t", "t", "p">>, site, 1) THEN Netloc(site)
    ELSE clean_search_term(site)

\* the queries in the order of the five strategies, each with its fields
ExpectedQueries(a) ==
    LET clinic == Quoted(clean_search_term(a.clinic_name))
    IN  (IF ~Blank(a.clinic_name) THEN <<clinic \o <<" ", "h", "o", "u", "r", "s", " ", "o", "p", "e", "n", "i", "n", "g", " ", "t", "i", "m", "e", "s">>>> ELSE <<>>)
        \o (IF ~Blank(a.clinic_name) /\ ~Blank(a.address)
            THEN <<clinic \o <<" ">> \o Quoted(clean_search_term(a.address)) \o <<" ", "h", "o", "u", "r", "s">>>>
            ELSE <<>>)
        \o (IF ~Blank(a.website) THEN <<<<"s", "i", "t", "e", ":">> \o SiteOf(a.website) \o <<" ", "h", "o", "u", "r", "s", " ", "o", "p", "e", "n", "i", "n", "g", " ", "t", "i", "m", "e", "s">>>> ELSE <<>>)
        \o (IF ~Blank(a.clinic_name) THEN <<clinic \o <<" ", "o", "p", "e", "n", " ", "m", "o", "n", "d", "a", "y", " ", "t", "u", "e", "s", "d", "a", "y", " ", "w", "e", "d", "n", "e", "s", "d", "a", "y", " ", "t", "h", "u", "r", "s", "d", "a", "y", " ", "f", "r", "i", "d", "a", "y">>>> ELSE <<>>)
        \o (IF ~Blank(a.name) /\ ~Blank(a.clinic_name)
            THEN <<Quoted(clean_search_term(a.name)) \o <<" ">> \o clinic \o <<" ", "s", "c", "h", "e", "d", "u", "l", "e", " ", "h", "o", "u", "r", "s">>>>
            ELSE <<>>)

\* C29: the queries come in the order of the strategies, each only when
\* its fields are non-empty after cleaning, and for a website given as an
\* http(s) URL the site: query names the host of that URL
C29_QueriesInOrderSiteNamesHost ==
    qpc = "returned" => queries = ExpectedQueries(qargs)
====
